---------------------------- MODULE Spec2Model ----------------------------
(***************************************************************************)
(* Rebate item normalization, validation and desirability evaluation.      *)
(*                                                                         *)
(* Python values are tagged records [t, s, n]: t is the Python type, s the *)
(* characters of a str (one-character strings), n the number of an int or  *)
(* bool, and of a float in hundredths (7.5 is 750), so that comparisons of *)
(* monetary factors are exact.  "bigint" is an int whose magnitude is      *)
(* beyond the range of a float (float() raises OverflowError on it).       *)
(* A dict is the sequence of its (key, value) pairs in insertion order.    *)
(***************************************************************************)
EXTENDS Integers, Sequences, FiniteSets, TLC

\* ------------------------------------------------------------------ values
None      == [t |-> "none",   s |-> <<>>, n |-> 0]
Str(s)    == [t |-> "str",    s |-> s,    n |-> 0]
IntV(n)    == [t |-> "int",    s |-> <<>>, n |-> n]
FloatV(c)  == [t |-> "float",  s |-> <<>>, n |-> c]
NaN       == [t |-> "float",  s |-> <<"n", "a", "n">>, n |-> 0]
BoolV(b)   == [t |-> "bool",   s |-> <<>>, n |-> IF b THEN 1 ELSE 0]
BigInt    == [t |-> "bigint", s |-> <<>>, n |-> 0]
List      == [t |-> "list",   s |-> <<>>, n |-> 0]

\* isinstance(v, str), isinstance(v, int), isinstance(v, (int, float)):
\* bool is a subclass of int
IsStr(v)    == v.t = "str"
IsInt(v)    == v.t \in {"int", "bool", "bigint"}
IsNumber(v) == v.t \in {"int", "bool", "bigint", "float"}

\* a >= b, a > b and a <= b of two floats: every comparison with nan is False
FloatGeq(a, b) == a # NaN /\ b # NaN /\ a.n >= b.n
FloatGt(a, b)  == a # NaN /\ b # NaN /\ a.n > b.n
FloatLeq(a, b) == a # NaN /\ b # NaN /\ a.n <= b.n

\* a dict object, and an object that is not a dict
Dict(kv)  == [kind |-> "dict",  kv |-> kv,   val |-> None]
Obj(v)    == [kind |-> "value", kv |-> <<>>, val |-> v]
IsDict(o) == o.kind = "dict"

\* dict.get(key): the value of the key, None when the key is absent
HasKey(d, key) == \E i \in 1..Len(d.kv) : d.kv[i].k = key
Get(d, key) ==
    IF HasKey(d, key)
    THEN d.kv[CHOOSE i \in 1..Len(d.kv) : d.kv[i].k = key].v
    ELSE None

\* d[key] = v: replaces the value of an existing key in place, else appends
Put(d, key, v) ==
    IF HasKey(d, key)
    THEN Dict([i \in 1..Len(d.kv) |->
                 IF d.kv[i].k = key THEN [k |-> key, v |-> v] ELSE d.kv[i]])
    ELSE Dict(Append(d.kv, [k |-> key, v |-> v]))

Keys(d) == {d.kv[i].k : i \in 1..Len(d.kv)}

\* ----------------------------------------------------------------- strings
LowerAlpha == <<"a", "b", "c", "d", "e", "f", "g", "h", "i", "j", "k", "l", "m", "n", "o", "p", "q", "r", "s", "t", "u", "v", "w", "x", "y", "z">>
UpperAlpha == <<"A", "B", "C", "D", "E", "F", "G", "H", "I", "J", "K", "L", "M", "N", "O", "P", "Q", "R", "S", "T", "U", "V", "W", "X", "Y", "Z">>
Digits     == <<"0", "1", "2", "3", "4", "5", "6", "7", "8", "9">>
Whitespace == {" ", "\t"}

IsDigit(c)  == \E i \in 1..10 : Digits[i] = c
DigitVal(c) == (CHOOSE i \in 1..10 : Digits[i] = c) - 1

char_lower(c) ==
    IF \E i \in 1..26 : UpperAlpha[i] = c
    THEN LowerAlpha[CHOOSE i \in 1..26 : UpperAlpha[i] = c]
    ELSE c
char_upper(c) ==
    IF \E i \in 1..26 : LowerAlpha[i] = c
    THEN UpperAlpha[CHOOSE i \in 1..26 : LowerAlpha[i] = c]
    ELSE c

\* str.lower(), str.upper()
lower(s) == [i \in 1..Len(s) |-> char_lower(s[i])]
upper(s) == [i \in 1..Len(s) |-> char_upper(s[i])]

\* str.strip(): drops leading and trailing whitespace
strip(s) ==
    LET nonws == {i \in 1..Len(s) : s[i] \notin Whitespace}
    IN  IF nonws = {} THEN <<>>
        ELSE LET a == CHOOSE i \in nonws : \A j \in nonws : i <= j
                 b == CHOOSE i \in nonws : \A j \in nonws : i >= j
             IN  SubSeq(s, a, b)

\* sub in s
Contains(sub, s) ==
    \E i \in 1..(Len(s) - Len(sub) + 1) : SubSeq(s, i, i + Len(sub) - 1) = sub

\* str.replace(a, b) for single characters
replace(s, a, b) == [i \in 1..Len(s) |-> IF s[i] = a THEN b ELSE s[i]]

\* end of the run of digits that starts at position i of s
RECURSIVE DigitRunEnd(_, _)
DigitRunEnd(s, i) ==
    IF i < Len(s) /\ IsDigit(s[i + 1]) THEN DigitRunEnd(s, i + 1) ELSE i

\* the natural number written by the first k of a sequence of digits
RECURSIVE DigitsPrefixVal(_, _)
DigitsPrefixVal(ds, k) ==
    IF k = 0 THEN 0 ELSE 10 * DigitsPrefixVal(ds, k - 1) + DigitVal(ds[k])

\* int(ds) of a sequence of digits
DigitsVal(ds) == DigitsPrefixVal(ds, Len(ds))

\* the decimal digits of a natural number
RECURSIVE NatStr(_)
NatStr(n) ==
    IF n < 10 THEN <<Digits[n + 1]>> ELSE Append(NatStr(n \div 10), Digits[(n % 10) + 1])

IntStr(n) == IF n < 0 THEN <<"-">> \o NatStr(-n) ELSE NatStr(n)

\* repr of a float given in hundredths: 750 is "7.5", 700 "7.0", 725 "7.25"
FloatStr(c) ==
    LET a    == IF c < 0 THEN -c ELSE c
        frac == a % 100
        fs   == IF frac % 10 = 0 THEN <<Digits[(frac \div 10) + 1]>>
                ELSE <<Digits[(frac \div 10) + 1], Digits[(frac % 10) + 1]>>
    IN  (IF c < 0 THEN <<"-">> ELSE <<>>) \o NatStr(a \div 100) \o <<".">> \o fs

\* str(v) of a scalar; the decimal rendering of a bigint is abbreviated
PyStr(v) ==
    CASE v.t = "str"    -> v.s
      [] v.t = "int"    -> IntStr(v.n)
      [] v.t = "float"  -> IF v = NaN THEN <<"n", "a", "n">> ELSE FloatStr(v.n)
      [] v.t = "bool"   -> IF v.n = 1 THEN <<"T", "r", "u", "e">> ELSE <<"F", "a", "l", "s", "e">>
      [] v.t = "bigint" -> <<"1", "0", "0", "0", "0", "0", "0", "0", "0", "0", "0", "0", "0">>
      [] OTHER          -> <<"N", "o", "n", "e">>

\* the outcome of an expression: a value, or the exception it raises
Ok(v)      == [exc |-> "none", val |-> v]
Raise(e)   == [exc |-> e,      val |-> None]

\* the element of a one-element set; Only({e(x) : x \in {v}}) is e(x) for a
\* local variable x of the code that is assigned v once and read several times
Only(S) == CHOOSE y \in S : TRUE

\* float(s) of a str: optional sign, then "nan" in any case or digits with
\* an optional fraction of at most two digits (the model's unit is the
\* hundredth); anything else is a ValueError
ParseFloat(raw) ==
    LET s    == strip(raw)
        neg  == Len(s) > 0 /\ s[1] = "-"
        body == IF Len(s) > 0 /\ s[1] \in {"-", "+"} THEN Tail(s) ELSE s
        dots == {i \in 1..Len(body) : body[i] = "."}
        wellformed ==
            /\ \A i \in 1..Len(body) : IsDigit(body[i]) \/ body[i] = "."
            /\ \E i \in 1..Len(body) : IsDigit(body[i])
            /\ Cardinality(dots) <= 1
        d    == IF dots = {} THEN Len(body) + 1 ELSE CHOOSE i \in dots : TRUE
        ip   == SubSeq(body, 1, d - 1)
        fp   == SubSeq(body, d + 1, Len(body))
        fp2  == SubSeq(fp \o <<"0", "0">>, 1, 2)
        mag  == 100 * DigitsVal(ip) + DigitsVal(fp2)
    IN  IF lower(body) = <<"n", "a", "n">> THEN Ok(NaN)
        ELSE IF wellformed THEN Ok(FloatV(IF neg THEN -mag ELSE mag))
        ELSE Raise("ValueError")

\* float(v)
PyFloat(v) ==
    CASE v.t = "str"    -> ParseFloat(v.s)
      [] v.t = "int"    -> Ok(FloatV(100 * v.n))
      [] v.t = "bool"   -> Ok(FloatV(100 * v.n))
      [] v.t = "float"  -> Ok(v)
      [] v.t = "bigint" -> Raise("OverflowError")
      [] OTHER          -> Raise("TypeError")


\* ------------------------------------------------------- field normalizer
manufacturer_product_code  == <<"m", "a", "n", "u", "f", "a", "c", "t", "u", "r", "e", "r", "_", "p", "r", "o", "d", "u", "c", "t", "_", "c", "o", "d", "e">>
product_id                 == <<"p", "r", "o", "d", "u", "c", "t", "_", "i", "d">>
product_name               == <<"p", "r", "o", "d", "u", "c", "t", "_", "n", "a", "m", "e">>
subsidiary                 == <<"s", "u", "b", "s", "i", "d", "i", "a", "r", "y">>
start_date                 == <<"s", "t", "a", "r", "t", "_", "d", "a", "t", "e">>
end_date                   == <<"e", "n", "d", "_", "d", "a", "t", "e">>
campaign_promotion_related == <<"c", "a", "m", "p", "a", "i", "g", "n", "_", "p", "r", "o", "m", "o", "t", "i", "o", "n", "_", "r", "e", "l", "a", "t", "e", "d">>
rebate_compensation_factor == <<"r", "e", "b", "a", "t", "e", "_", "c", "o", "m", "p", "e", "n", "s", "a", "t", "i", "o", "n", "_", "f", "a", "c", "t", "o", "r">>
max_spq                    == <<"m", "a", "x", "_", "s", "p", "q">>
is_desired                 == <<"i", "s", "_", "d", "e", "s", "i", "r", "e", "d">>

expected_fields ==
    << manufacturer_product_code, product_id, product_name, subsidiary,
       start_date, end_date, campaign_promotion_related,
       rebate_compensation_factor, max_spq >>

\* a list object, and a batch that is not a list (None)
ListOf(elems) == [kind |-> "list", elems |-> elems]
NotAList      == [kind |-> "none", elems |-> <<>>]

\* variant: the "null" test without strip()
IsNullStringUnstripped(raw_value) ==
    IsStr(raw_value) /\ lower(raw_value.s) = <<"n", "u", "l", "l">>

\* variant: the word compared in the case it is written in
IsNullStringExactCase(raw_value) ==
    IsStr(raw_value) /\ strip(raw_value.s) = <<"n", "u", "l", "l">>

\* isinstance(raw_value, str) and raw_value.strip().lower() == "null"
IsNullString(raw_value) ==
    IsStr(raw_value) /\ lower(strip(raw_value.s)) = <<"n", "u", "l", "l">>

\* variant: the markers tried in the order DE, BE, NL
NormalizeSubsidiaryGermanFirst(raw_value) ==
    IF IsStr(raw_value)
    THEN LET upper_value == upper(strip(raw_value.s))
         IN  IF \/ Contains(<<"D", "E">>, upper_value)
                \/ Contains(<<"G", "E", "R", "M", "A", "N", "Y">>, upper_value)
                \/ Contains(<<"D", "U", "I", "T", "S", "L", "A", "N", "D">>, upper_value)
             THEN Str(<<"D", "E">>)
             ELSE IF \/ Contains(<<"B", "E">>, upper_value)
                     \/ Contains(<<"B", "E", "L", "G", "I", "U", "M">>, upper_value)
                     \/ Contains(<<"B", "E", "L", "G", "I", "E">>, upper_value)
             THEN Str(<<"B", "E">>)
             ELSE IF \/ Contains(<<"N", "L">>, upper_value)
                     \/ Contains(<<"N", "E", "T", "H", "E", "R", "L", "A", "N", "D", "S">>, upper_value)
                     \/ Contains(<<"N", "E", "D", "E", "R", "L", "A", "N", "D">>, upper_value)
             THEN Str(<<"N", "L">>)
             ELSE None
    ELSE None

NormalizeSubsidiary(raw_value) ==
    IF IsStr(raw_value)
    THEN LET upper_value == upper(strip(raw_value.s))
         IN  IF \/ Contains(<<"N", "L">>, upper_value)
                \/ Contains(<<"N", "E", "T", "H", "E", "R", "L", "A", "N", "D", "S">>, upper_value)
                \/ Contains(<<"N", "E", "D", "E", "R", "L", "A", "N", "D">>, upper_value)
             THEN Str(<<"N", "L">>)
             ELSE IF \/ Contains(<<"B", "E">>, upper_value)
                     \/ Contains(<<"B", "E", "L", "G", "I", "U", "M">>, upper_value)
                     \/ Contains(<<"B", "E", "L", "G", "I", "E">>, upper_value)
             THEN Str(<<"B", "E">>)
             ELSE IF \/ Contains(<<"D", "E">>, upper_value)
                     \/ Contains(<<"G", "E", "R", "M", "A", "N", "Y">>, upper_value)
                     \/ Contains(<<"D", "U", "I", "T", "S", "L", "A", "N", "D">>, upper_value)
             THEN Str(<<"D", "E">>)
             ELSE None
    ELSE None

\* group(1) of re.search(r'[€$]?\s*(\d+(\.\d+)?([,\.]\d+)?)\s*(EUR)?', s):
\* the first run of digits with up to two further ".digits" parts; the empty
\* string when s has no digit (no match)
NumberMatch(s) ==
    LET ds == {i \in 1..Len(s) : IsDigit(s[i])}
    IN  IF ds = {} THEN <<>>
        ELSE LET a  == CHOOSE i \in ds : \A j \in ds : i <= j
                 e1 == DigitRunEnd(s, a)
                 e2 == IF e1 + 2 <= Len(s) /\ s[e1 + 1] = "." /\ IsDigit(s[e1 + 2])
                       THEN DigitRunEnd(s, e1 + 2) ELSE e1
                 e3 == IF e2 + 2 <= Len(s) /\ s[e2 + 1] \in {",", "."} /\ IsDigit(s[e2 + 2])
                       THEN DigitRunEnd(s, e2 + 2) ELSE e2
             IN  SubSeq(s, a, e3)

\* variant: every string with a percent sign is discarded
CheckParsedFactorAnyPercent(raw_value, transformed_value) ==
    IF Contains(<<"%">>, raw_value.s) THEN None
    ELSE IF FloatLeq(transformed_value, FloatV(0)) THEN None
    ELSE transformed_value

\* the percentage and positivity checks made on a parsed string factor
CheckParsedFactor(raw_value, transformed_value) ==
    IF Contains(<<"%">>, raw_value.s) /\ FloatGt(transformed_value, FloatV(100)) THEN None
    ELSE IF FloatLeq(transformed_value, FloatV(0)) THEN None
    ELSE transformed_value

\* variant: the decimal comma is not replaced by a dot before matching
NormalizeFactorKeepComma(raw_value) ==
    IF IsStr(raw_value)
    THEN LET match == NumberMatch(raw_value.s)
         IN  IF match # <<>>
             THEN LET f == ParseFloat(match)
                  IN  IF f.exc = "none"
                      THEN Ok(CheckParsedFactor(raw_value, f.val))
                      ELSE Ok(None)
             ELSE Ok(None)
    ELSE IF IsNumber(raw_value) THEN PyFloat(raw_value)
    ELSE Ok(None)

NormalizeFactor(raw_value) ==
    IF IsStr(raw_value)
    THEN LET match == NumberMatch(replace(raw_value.s, ",", "."))
         IN  IF match # <<>>
             THEN LET f == ParseFloat(match)
                  IN  IF f.exc = "none"
                      THEN Ok(CheckParsedFactor(raw_value, f.val))
                      ELSE Ok(None)
             ELSE Ok(None)
    ELSE IF IsNumber(raw_value) THEN PyFloat(raw_value)
    ELSE Ok(None)

\* group(0) of re.search(r'\d+', s)
DigitsMatch(s) ==
    LET ds == {i \in 1..Len(s) : IsDigit(s[i])}
    IN  IF ds = {} THEN <<>>
        ELSE LET a == CHOOSE i \in ds : \A j \in ds : i <= j
             IN  SubSeq(s, a, DigitRunEnd(s, a))

NormalizeMaxSpq(raw_value) ==
    IF IsStr(raw_value)
    THEN LET match == DigitsMatch(raw_value.s)
         IN  IF match # <<>> THEN IntV(DigitsVal(match)) ELSE None
    ELSE IF IsInt(raw_value) THEN raw_value
    ELSE None

NormalizeText(raw_value) ==
    IF raw_value.t \in {"str", "int", "bigint", "float", "bool"}
    THEN Str(strip(PyStr(raw_value)))
    ELSE None

NormalizeCampaign(raw_value) ==
    IF raw_value.t = "bool" \/ raw_value = None THEN raw_value
    ELSE IF IsStr(raw_value)
    THEN LET lower_value == lower(strip(raw_value.s))
         IN  IF lower_value \in {<<"t", "r", "u", "e">>, <<"y", "e", "s">>, <<"1">>} THEN BoolV(TRUE)
             ELSE IF lower_value \in {<<"f", "a", "l", "s", "e">>, <<"n", "o">>, <<"0">>} THEN BoolV(FALSE)
             ELSE None
    ELSE None

\* the body of the loop over expected_fields for one field: the value
\* assigned to transformed_item[field], or the exception raised
TransformField(field, raw_value) ==
    IF IsNullString(raw_value) THEN Ok(None)
    ELSE IF field = subsidiary THEN Ok(NormalizeSubsidiary(raw_value))
    ELSE IF field = rebate_compensation_factor THEN NormalizeFactor(raw_value)
    ELSE IF field = max_spq THEN Ok(NormalizeMaxSpq(raw_value))
    ELSE IF field \in {manufacturer_product_code, product_id, product_name,
                       start_date, end_date}
    THEN Ok(NormalizeText(raw_value))
    ELSE Ok(NormalizeCampaign(raw_value))

\* {k.lower(): v for k, v in raw_item.items()}: AttributeError when a key is
\* not a str
RECURSIVE LowerKeys(_, _)
LowerKeys(kv, acc) ==
    IF kv = <<>> THEN acc
    ELSE Only({LowerKeys(Tail(kv), d) :
                  d \in {Put(acc, Str(lower(Head(kv).k.s)), Head(kv).v)}})

AllKeysStr(raw_item) == \A i \in 1..Len(raw_item.kv) : IsStr(raw_item.kv[i].k)

\* variant: only the fields the raw item has are put in the transformed item
TransformFieldsPresentKeys(raw_item_lower_keys) ==
    LET present == SelectSeq(expected_fields,
                             LAMBDA f : HasKey(raw_item_lower_keys, Str(f)))
        res == [i \in 1..Len(present) |->
                   TransformField(present[i], Get(raw_item_lower_keys, Str(present[i])))]
        bad == {i \in 1..Len(present) : res[i].exc # "none"}
    IN  IF bad # {}
        THEN [exc |-> res[CHOOSE i \in bad : \A j \in bad : i <= j].exc,
              item |-> Dict(<<>>)]
        ELSE [exc |-> "none",
              item |-> Dict([i \in 1..Len(present) |->
                               [k |-> Str(present[i]), v |-> res[i].val]])]

\* the transformed item built from the raw item's lower-cased keys
TransformFields(raw_item_lower_keys) ==
    LET res == [i \in 1..Len(expected_fields) |->
                   TransformField(expected_fields[i],
                                  Get(raw_item_lower_keys, Str(expected_fields[i])))]
        bad == {i \in 1..Len(expected_fields) : res[i].exc # "none"}
    IN  IF bad # {}
        THEN [exc |-> res[CHOOSE i \in bad : \A j \in bad : i <= j].exc,
              item |-> Dict(<<>>)]
        ELSE [exc |-> "none",
              item |-> Dict([i \in 1..Len(expected_fields) |->
                               [k |-> Str(expected_fields[i]), v |-> res[i].val]])]

\* one raw item to one transformed item (all expected fields, in order)
TransformItem(raw_item) ==
    Only({TransformFields(raw_item_lower_keys) :
             raw_item_lower_keys \in {LowerKeys(raw_item.kv, Dict(<<>>))}})

\* variant: the loop ends at the first item it cannot take (break for continue)
RECURSIVE TransformLoopBreak(_, _)
TransformLoopBreak(raw_items, transformed_items_list) ==
    IF raw_items = <<>> THEN [exc |-> "none", items |-> transformed_items_list]
    ELSE LET raw_item == Head(raw_items)
         IN  IF ~IsDict(raw_item) \/ ~AllKeysStr(raw_item)
             THEN [exc |-> "none", items |-> transformed_items_list]
             ELSE Only({IF t.exc # "none"
                        THEN [exc |-> t.exc, items |-> <<>>]
                        ELSE Only({TransformLoopBreak(Tail(raw_items), l) :
                                      l \in {Append(transformed_items_list, t.item)}}) :
                        t \in {TransformItem(raw_item)}})

\* variant: a candidate that cannot be taken leaves a null in its place, so
\* that the items keep the positions of the raw batch
RECURSIVE TransformLoopPlaceholder(_, _)
TransformLoopPlaceholder(raw_items, transformed_items_list) ==
    IF raw_items = <<>> THEN [exc |-> "none", items |-> transformed_items_list]
    ELSE LET raw_item == Head(raw_items)
         IN  IF ~IsDict(raw_item) \/ ~AllKeysStr(raw_item)
             THEN Only({TransformLoopPlaceholder(Tail(raw_items), l) :
                           l \in {Append(transformed_items_list, Obj(None))}})
             ELSE Only({IF t.exc # "none"
                        THEN [exc |-> t.exc, items |-> <<>>]
                        ELSE Only({TransformLoopPlaceholder(Tail(raw_items), l) :
                                      l \in {Append(transformed_items_list, t.item)}}) :
                        t \in {TransformItem(raw_item)}})

\* the loop over the raw items: non-dictionaries and dictionaries with a
\* non-str key are skipped, an exception of a field transform propagates
RECURSIVE TransformLoop(_, _)
TransformLoop(raw_items, transformed_items_list) ==
    IF raw_items = <<>> THEN [exc |-> "none", items |-> transformed_items_list]
    ELSE LET raw_item == Head(raw_items)
         IN  IF ~IsDict(raw_item) \/ ~AllKeysStr(raw_item)
             THEN TransformLoop(Tail(raw_items), transformed_items_list)
             ELSE Only({IF t.exc # "none"
                        THEN [exc |-> t.exc, items |-> <<>>]
                        ELSE Only({TransformLoop(Tail(raw_items), l) :
                                      l \in {Append(transformed_items_list, t.item)}}) :
                        t \in {TransformItem(raw_item)}})

\* variant: a batch that is not a list is iterated without a type check
transform_extracted_data_unchecked(list_of_raw_data_items) ==
    IF list_of_raw_data_items.kind # "list" THEN [exc |-> "TypeError", items |-> <<>>]
    ELSE IF list_of_raw_data_items.elems = <<>> THEN [exc |-> "none", items |-> <<>>]
    ELSE TransformLoop(list_of_raw_data_items.elems, <<>>)

transform_extracted_data_list(list_of_raw_data_items) ==
    IF list_of_raw_data_items.kind # "list" THEN [exc |-> "none", items |-> <<>>]
    ELSE IF list_of_raw_data_items.elems = <<>> THEN [exc |-> "none", items |-> <<>>]
    ELSE TransformLoop(list_of_raw_data_items.elems, <<>>)


\* ---------------------------------------------------------- item validator
required_fields ==
    << start_date, end_date, rebate_compensation_factor, subsidiary,
       manufacturer_product_code >>

\* the parts of s between the occurrences of "-"
RECURSIVE SplitDash(_, _, _)
SplitDash(s, cur, acc) ==
    IF s = <<>> THEN Append(acc, cur)
    ELSE IF Head(s) = "-" THEN SplitDash(Tail(s), <<>>, Append(acc, cur))
    ELSE SplitDash(Tail(s), Append(cur, Head(s)), acc)

AllDigits(s) == s # <<>> /\ \A i \in 1..Len(s) : IsDigit(s[i])

DaysInMonth(y, m) ==
    IF m \in {4, 6, 9, 11} THEN 30
    ELSE IF m = 2
    THEN (IF (y % 4 = 0 /\ y % 100 # 0) \/ y % 400 = 0 THEN 29 ELSE 28)
    ELSE 31

\* datetime.strptime(value, '%Y-%m-%d') does not raise ValueError: a year of
\* four digits, a month 1..12 and a day of that month, each of the latter
\* written with one or two digits
ParsesAsDate(s) ==
    LET parts == SplitDash(s, <<>>, <<>>)
    IN  /\ Len(parts) = 3
        /\ AllDigits(parts[1]) /\ Len(parts[1]) = 4
        /\ AllDigits(parts[2]) /\ Len(parts[2]) \in {1, 2}
        /\ AllDigits(parts[3]) /\ Len(parts[3]) \in {1, 2}
        /\ LET y == DigitsVal(parts[1])
               m == DigitsVal(parts[2])
               d == DigitsVal(parts[3])
           IN  /\ y >= 1
               /\ m \in 1..12
               /\ d \in 1..DaysInMonth(y, m)

\* value <= 0 for a number (a bigint is positive; nan <= 0 is False)
LeqZero(v) == v.t # "bigint" /\ v # NaN /\ v.n <= 0

Issue(field, what) == [field |-> field, what |-> what]

\* variant: the product code is looked up in the valid-code set whatever its
\* letter case
FieldIssuesAnyCase(field, value, valid_product_codes) ==
    IF value = None THEN <<Issue(field, "missing or null")>>
    ELSE IF IsStr(value) /\ strip(value.s) = <<>>
    THEN <<Issue(field, "empty string")>>
    ELSE IF field = subsidiary
    THEN (IF ~IsStr(value) \/ value.s \notin {<<"N", "L">>, <<"B", "E">>, <<"D", "E">>}
          THEN <<Issue(field, "invalid value")>> ELSE <<>>)
    ELSE IF field = manufacturer_product_code
    THEN (IF ~IsStr(value) \/ lower(strip(value.s)) \notin {lower(c) : c \in valid_product_codes}
          THEN <<Issue(field, "invalid value")>> ELSE <<>>)
    ELSE IF field \in {start_date, end_date}
    THEN (IF ~IsStr(value) THEN <<Issue(field, "not a string")>>
          ELSE IF ~ParsesAsDate(value.s) THEN <<Issue(field, "bad format")>>
          ELSE <<>>)
    ELSE \* rebate_compensation_factor
         (IF ~IsNumber(value) THEN <<Issue(field, "not a number")>>
          ELSE IF LeqZero(value) THEN <<Issue(field, "not greater than 0")>>
          ELSE <<>>)

\* the issues one required field of an item adds (at most one)
FieldIssues(field, value, valid_product_codes) ==
    IF value = None THEN <<Issue(field, "missing or null")>>
    ELSE IF IsStr(value) /\ strip(value.s) = <<>>
    THEN <<Issue(field, "empty string")>>
    ELSE IF field = subsidiary
    THEN (IF ~IsStr(value) \/ value.s \notin {<<"N", "L">>, <<"B", "E">>, <<"D", "E">>}
          THEN <<Issue(field, "invalid value")>> ELSE <<>>)
    ELSE IF field = manufacturer_product_code
    THEN (IF ~IsStr(value) \/ strip(value.s) \notin valid_product_codes
          THEN <<Issue(field, "invalid value")>> ELSE <<>>)
    ELSE IF field \in {start_date, end_date}
    THEN (IF ~IsStr(value) THEN <<Issue(field, "not a string")>>
          ELSE IF ~ParsesAsDate(value.s) THEN <<Issue(field, "bad format")>>
          ELSE <<>>)
    ELSE \* rebate_compensation_factor
         (IF ~IsNumber(value) THEN <<Issue(field, "not a number")>>
          ELSE IF LeqZero(value) THEN <<Issue(field, "not greater than 0")>>
          ELSE <<>>)

RECURSIVE ItemIssues(_, _, _)
ItemIssues(item, fields, valid_product_codes) ==
    IF fields = <<>> THEN <<>>
    ELSE FieldIssues(Head(fields), Get(item, Str(Head(fields))), valid_product_codes)
         \o ItemIssues(item, Tail(fields), valid_product_codes)

\* variant: item_index counts the items from 1
RECURSIVE ValidateLoopFromOne(_, _, _, _)
ValidateLoopFromOne(list, index, valid_product_codes, invalid_items_results) ==
    IF index >= Len(list) THEN invalid_items_results
    ELSE LET item == list[index + 1]
             current_item_issues ==
                 IF ~IsDict(item)
                 THEN <<Issue(<<>>, "not a dictionary")>>
                 ELSE ItemIssues(item, required_fields, valid_product_codes)
         IN  Only({ValidateLoopFromOne(list, index + 1, valid_product_codes, l) :
                      l \in {Only({IF found # <<>>
                                   THEN Append(invalid_items_results,
                                               [item_index |-> index + 1, issues |-> found])
                                   ELSE invalid_items_results :
                                   found \in {current_item_issues}})}})

\* item_index is the 0-based position of the item in the list
RECURSIVE ValidateLoop(_, _, _, _)
ValidateLoop(list, index, valid_product_codes, invalid_items_results) ==
    IF index >= Len(list) THEN invalid_items_results
    ELSE LET item == list[index + 1]
             current_item_issues ==
                 IF ~IsDict(item)
                 THEN <<Issue(<<>>, "not a dictionary")>>
                 ELSE ItemIssues(item, required_fields, valid_product_codes)
         IN  Only({ValidateLoop(list, index + 1, valid_product_codes, l) :
                      l \in {Only({IF found # <<>>
                                   THEN Append(invalid_items_results,
                                               [item_index |-> index, issues |-> found])
                                   ELSE invalid_items_results :
                                   found \in {current_item_issues}})}})

check_required_fields_and_validate_product_code(list_of_transformed_data_items, valid_product_codes) ==
    IF list_of_transformed_data_items.kind # "list" THEN <<>>
    ELSE IF list_of_transformed_data_items.elems = <<>> THEN <<>>
    ELSE ValidateLoop(list_of_transformed_data_items.elems, 0,
                      valid_product_codes, <<>>)

\* --------------------------------------------- reference lookup builder
\* the column names the orchestrator passes
mpc_header_internal                   == <<"m", "a", "n", "u", "f", "a", "c", "t", "u", "r", "e", "r", "_", "p", "r", "o", "d", "u", "c", "t", "_", "c", "o", "d", "e">>
subsidiary_header_internal            == <<"s", "u", "b", "s", "i", "d", "i", "a", "r", "y">>
required_compensation_header_internal == <<"c", "o", "m", "p", "e", "n", "s", "a", "t", "i", "o", "n", "_", "r", "e", "q", "u", "i", "r", "e", "d">>

\* variant: the key keeps the letter case of the code and the subsidiary
LookupKeyExact(mpc, sub) == [code |-> strip(mpc.s), sub |-> strip(sub.s)]

\* (mpc.strip().lower(), subsidiary.strip().upper())
LookupKey(mpc, sub) == [code |-> lower(strip(mpc.s)), sub |-> upper(strip(sub.s))]

\* one reference row: "skip" leaves the table alone, "put" inserts the key,
\* "raise" is an exception that leaves the loop
LookupRow(row) ==
    IF ~IsDict(row) THEN [act |-> "raise", exc |-> "AttributeError"]
    ELSE LET mpc  == Get(row, Str(mpc_header_internal))
             sub  == Get(row, Str(subsidiary_header_internal))
             required_comp_str == Get(row, Str(required_compensation_header_internal))
         IN  IF mpc = None THEN [act |-> "skip", exc |-> "none"]
             ELSE IF ~IsStr(mpc) THEN [act |-> "raise", exc |-> "AttributeError"]
             ELSE IF strip(mpc.s) = <<>> THEN [act |-> "skip", exc |-> "none"]
             ELSE IF sub = None THEN [act |-> "skip", exc |-> "none"]
             ELSE IF ~IsStr(sub) THEN [act |-> "raise", exc |-> "AttributeError"]
             ELSE IF strip(sub.s) = <<>> THEN [act |-> "skip", exc |-> "none"]
             ELSE IF required_comp_str = None THEN [act |-> "skip", exc |-> "none"]
             ELSE IF PyFloat(required_comp_str).exc # "none"
             THEN [act |-> "skip", exc |-> "none"]
             ELSE [act |-> "put", exc |-> "none"]

\* variant: a key that is already in the table keeps its first value
RECURSIVE BuildLookupFirstWins(_, _)
BuildLookupFirstWins(rows, internal_lookup) ==
    IF rows = <<>> THEN [exc |-> "none", lookup |-> internal_lookup]
    ELSE LET row == Head(rows)
             put == Put(internal_lookup,
                        LookupKey(Get(row, Str(mpc_header_internal)),
                                  Get(row, Str(subsidiary_header_internal))),
                        PyFloat(Get(row, Str(required_compensation_header_internal))).val)
         IN  Only({IF r.act = "raise" THEN [exc |-> r.exc, lookup |-> internal_lookup]
                   ELSE IF r.act = "skip" THEN BuildLookupFirstWins(Tail(rows), internal_lookup)
                   ELSE IF HasKey(internal_lookup,
                                  LookupKey(Get(row, Str(mpc_header_internal)),
                                            Get(row, Str(subsidiary_header_internal))))
                   THEN BuildLookupFirstWins(Tail(rows), internal_lookup)
                   ELSE Only({BuildLookupFirstWins(Tail(rows), d) : d \in {put}}) :
                   r \in {LookupRow(row)}})

RECURSIVE BuildLookup(_, _)
BuildLookup(rows, internal_lookup) ==
    IF rows = <<>> THEN [exc |-> "none", lookup |-> internal_lookup]
    ELSE LET row == Head(rows)
             put == Put(internal_lookup,
                        LookupKey(Get(row, Str(mpc_header_internal)),
                                  Get(row, Str(subsidiary_header_internal))),
                        PyFloat(Get(row, Str(required_compensation_header_internal))).val)
         IN  Only({IF r.act = "raise" THEN [exc |-> r.exc, lookup |-> internal_lookup]
                   ELSE IF r.act = "skip" THEN BuildLookup(Tail(rows), internal_lookup)
                   ELSE Only({BuildLookup(Tail(rows), d) : d \in {put}}) :
                   r \in {LookupRow(row)}})

\* -------------------------------------------------- desirability evaluator
\* variant: a strict comparison (a tie is not desired)
CompareStrict(rebate_factor_val, required_factor) ==
    IF rebate_factor_val = None THEN FALSE
    ELSE IF IsNumber(rebate_factor_val)
    THEN LET rebate_factor == PyFloat(rebate_factor_val)
         IN  IF rebate_factor.exc # "none" THEN FALSE
             ELSE FloatGt(rebate_factor.val, required_factor)
    ELSE FALSE

\* the comparison of the try block: any exception of it resolves to False
Compare(rebate_factor_val, required_factor) ==
    IF rebate_factor_val = None THEN FALSE
    ELSE IF IsNumber(rebate_factor_val)
    THEN LET rebate_factor == PyFloat(rebate_factor_val)
         IN  IF rebate_factor.exc # "none" THEN FALSE
             ELSE FloatGeq(rebate_factor.val, required_factor)
    ELSE FALSE

\* the body of the loop for one item: the flag it sets, or the exception
EvaluateItem(item, internal_lookup) ==
    IF ~IsDict(item) THEN Raise("AttributeError")
    ELSE LET item_mpc          == Get(item, Str(manufacturer_product_code))
             item_subsidiary   == Get(item, Str(subsidiary))
             rebate_factor_val == Get(item, Str(rebate_compensation_factor))
         IN  IF item_mpc = None THEN Ok(BoolV(FALSE))
             ELSE IF ~IsStr(item_mpc) THEN Raise("AttributeError")
             ELSE IF strip(item_mpc.s) = <<>> THEN Ok(BoolV(FALSE))
             ELSE IF item_subsidiary = None THEN Ok(BoolV(FALSE))
             ELSE IF ~IsStr(item_subsidiary) THEN Raise("AttributeError")
             ELSE IF strip(item_subsidiary.s) = <<>> THEN Ok(BoolV(FALSE))
             ELSE LET lookup_key == LookupKey(item_mpc, item_subsidiary)
                  IN  IF ~HasKey(internal_lookup, lookup_key) THEN Ok(BoolV(FALSE))
                      ELSE Ok(BoolV(Compare(rebate_factor_val,
                                            Get(internal_lookup, lookup_key))))

\* variant: an item without a product code is passed over (continue without
\* setting the flag or appending the item)
RECURSIVE EvaluateLoopPassOver(_, _, _, _)
EvaluateLoopPassOver(list, i, internal_lookup, evaluated_items) ==
    IF i > Len(list) THEN [exc |-> "none", items |-> list, evaluated |-> evaluated_items]
    ELSE Only({IF e.exc # "none"
               THEN [exc |-> e.exc, items |-> list, evaluated |-> <<>>]
               ELSE IF Get(list[i], Str(manufacturer_product_code)) = None
               THEN EvaluateLoopPassOver(list, i + 1, internal_lookup, evaluated_items)
               ELSE Only({EvaluateLoopPassOver(l, i + 1, internal_lookup,
                                               Append(evaluated_items, i)) :
                             l \in {[list EXCEPT ![i] =
                                        Put(list[i], Str(is_desired), e.val)]}}) :
               e \in {EvaluateItem(list[i], internal_lookup)}})

\* the loop over the items: each item is mutated in place and a reference to
\* it (its position) is appended to evaluated_items; an exception leaves the
\* items seen so far mutated and returns nothing
RECURSIVE EvaluateLoop(_, _, _, _)
EvaluateLoop(list, i, internal_lookup, evaluated_items) ==
    IF i > Len(list) THEN [exc |-> "none", items |-> list, evaluated |-> evaluated_items]
    ELSE Only({IF e.exc # "none"
               THEN [exc |-> e.exc, items |-> list, evaluated |-> <<>>]
               ELSE Only({EvaluateLoop(l, i + 1, internal_lookup,
                                       Append(evaluated_items, i)) :
                             l \in {[list EXCEPT ![i] =
                                        Put(list[i], Str(is_desired), e.val)]}}) :
               e \in {EvaluateItem(list[i], internal_lookup)}})

evaluate_rebate_desirability(rebate_items_list, internal_product_data_full) ==
    Only({
        IF built.exc # "none"
        THEN [exc |-> built.exc, at |-> "lookup", items |-> rebate_items_list.elems,
              evaluated |-> <<>>, lookup |-> built.lookup]
        ELSE IF rebate_items_list.kind # "list"
        THEN [exc |-> "TypeError", at |-> "items", items |-> rebate_items_list.elems,
              evaluated |-> <<>>, lookup |-> built.lookup]
        ELSE Only({[exc |-> r.exc, at |-> "items", items |-> r.items,
                    evaluated |-> r.evaluated, lookup |-> built.lookup] :
                   r \in {EvaluateLoop(rebate_items_list.elems, 1, built.lookup, <<>>)}}) :
        built \in {IF internal_product_data_full.kind # "list"
                      \/ internal_product_data_full.elems = <<>>
                   THEN [exc |-> "none", lookup |-> Dict(<<>>)]
                   ELSE BuildLookup(internal_product_data_full.elems, Dict(<<>>))}})

\* ------------------------------------------------------------------ inputs
\* longest batch of mixed objects handed to a stage
MaxBatch == 2

KV(key, v) == [k |-> Str(key), v |-> v]

\* raw values the extraction service can put in a field
FactorRaws ==
    { Str(<<"€", "7", ",", "5", "0">>), Str(<<"7", ".", "4", "9">>), Str(<<"1", "0", "%">>), Str(<<"0", ".", "5", "%">>), Str(<<"1", "%">>),
      Str(<<"-", "5">>), Str(<<"0">>), Str(<<"0", ",", "0", "0">>), Str(<<"1", ".", "2", ".", "3">>), Str(<<"1", "2", " ", "E", "U", "R">>),
      Str(<<"a", "b", "c">>), Str(<<" ", "N", "U", "L", "L", " ">>), Str(<<>>),
      IntV(5), IntV(0), IntV(-3), FloatV(750), FloatV(749), FloatV(-50),
      NaN, BoolV(TRUE), BoolV(FALSE), None, BigInt, List }
CodeRaws ==
    { Str(<<"P", "X", "-", "7", "8", "9">>), Str(<<"p", "x", "-", "7", "8", "9">>), Str(<<" ", "P", "X", "-", "7", "8", "9", " ">>), Str(<<"Z", "Z", "-", "1">>),
      Str(<<>>), Str(<<" ", " ">>), Str(<<"N", "u", "l", "l">>), IntV(42), FloatV(150), None, List }
SubsidiaryRaws ==
    { Str(<<"n", "l">>), Str(<<"N", "L">>), Str(<<" ", "b", "e", " ">>), Str(<<"D", "E">>), Str(<<"N", "e", "d", "e", "r", "l", "a", "n", "d">>),
      Str(<<"B", "e", "l", "g", "i", "e">>), Str(<<"D", "u", "i", "t", "s", "l", "a", "n", "d">>), Str(<<"G", "e", "r", "m", "a", "n", "y">>), Str(<<"S", "w", "e", "d", "e", "n">>),
      Str(<<"F", "r", "a", "n", "c", "e">>), Str(<<"B", "e", "n", "e", "l", "u", "x">>), Str(<<>>), Str(<<"n", "u", "l", "l">>), IntV(1),
      None, List, Str(<<"N", "e", "t", "h", "e", "r", "l", "a", "n", "d", "s">>), Str(<<"B", "e", "l", "g", "i", "u", "m">>), Str(<<"b", "e", "-", "d", "e">>) }
DateRaws ==
    { Str(<<"2", "0", "2", "4", "-", "0", "1", "-", "0", "1">>), Str(<<"2", "0", "2", "4", "-", "1", "-", "5">>), Str(<<"2", "0", "2", "4", "-", "0", "2", "-", "3", "0">>),
      Str(<<"2", "0", "2", "4", "-", "0", "2", "-", "2", "9">>), Str(<<"2", "0", "2", "3", "-", "0", "2", "-", "2", "9">>), Str(<<"0", "1", "-", "0", "1", "-", "2", "0", "2", "4">>),
      Str(<<"2", "0", "2", "4", "-", "1", "3", "-", "0", "1">>), Str(<<"s", "o", "o", "n">>), Str(<<>>), Str(<<"n", "u", "l", "l">>),
      IntV(2024), None }
CampaignRaws ==
    { BoolV(TRUE), BoolV(FALSE), Str(<<"Y", "e", "s">>), Str(<<"n", "o">>), Str(<<"1">>),
      Str(<<"0">>), Str(<<" ", "T", "R", "U", "E", " ">>), Str(<<"m", "a", "y", "b", "e">>), IntV(1), None, List,
      Str(<<"n", "u", "L", "L", " ">>) }
MaxSpqRaws ==
    { IntV(100), IntV(0), IntV(-5), Str(<<"1", "2", " ", "s", "t">>), Str(<<"m", "a", "x", " ", "0", "0", "7">>),
      Str(<<"-", "7">>), Str(<<"a", "b", "c">>), BoolV(TRUE), FloatV(200), BigInt, None, List,
      Str(<<" ", "N", "u", "l", "l">>) }
TextRaws ==
    { Str(<<"W", "i", "d", "g", "e", "t">>), Str(<<" ", "W", "i", "d", "g", "e", "t", " ">>), Str(<<"n", "u", "l", "l">>), Str(<<" ", "N", "u", "l", "l", " ">>),
      Str(<<>>), IntV(-12),
      FloatV(725), FloatV(700), BoolV(FALSE), None, List }

\* a candidate with all nine fields (one key not in lower case)
BaseCandidate ==
    Dict(<< KV(<<"M", "a", "n", "u", "f", "a", "c", "t", "u", "r", "e", "r", "_", "P", "r", "o", "d", "u", "c", "t", "_", "C", "o", "d", "e">>, Str(<<"P", "X", "-", "7", "8", "9">>)),
            KV(product_id, Str(<<"1", "0", "0", "1">>)),
            KV(product_name, Str(<<"W", "i", "d", "g", "e", "t">>)),
            KV(<<"S", "u", "b", "s", "i", "d", "i", "a", "r", "y">>, Str(<<"n", "l">>)),
            KV(start_date, Str(<<"2", "0", "2", "4", "-", "0", "1", "-", "0", "1">>)),
            KV(end_date, Str(<<"2", "0", "2", "4", "-", "1", "2", "-", "3", "1">>)),
            KV(campaign_promotion_related, BoolV(TRUE)),
            KV(<<"R", "E", "B", "A", "T", "E", "_", "C", "O", "M", "P", "E", "N", "S", "A", "T", "I", "O", "N", "_", "F", "A", "C", "T", "O", "R">>, Str(<<"€", "7", ",", "5", "0">>)),
            KV(max_spq, IntV(100)) >>)

\* a candidate with three fields only
SparseCandidate(code, sub, factor) ==
    Dict(<< KV(manufacturer_product_code, code), KV(subsidiary, sub),
            KV(rebate_compensation_factor, factor) >>)

\* a record that already has the canonical keys and the canonical types
TypedRecord(name, factor, spq) ==
    Dict(<< KV(manufacturer_product_code, Str(<<"P", "X", "-", "7", "8", "9">>)),
            KV(product_id, None),
            KV(product_name, name),
            KV(subsidiary, Str(<<"N", "L">>)),
            KV(start_date, Str(<<"2", "0", "2", "4", "-", "0", "1", "-", "0", "1">>)),
            KV(end_date, None),
            KV(campaign_promotion_related, BoolV(FALSE)),
            KV(rebate_compensation_factor, factor),
            KV(max_spq, spq) >>)

FieldVariants ==
    {Put(BaseCandidate, Str(<<"R", "E", "B", "A", "T", "E", "_", "C", "O", "M", "P", "E", "N", "S", "A", "T", "I", "O", "N", "_", "F", "A", "C", "T", "O", "R">>), v) : v \in FactorRaws}
    \cup {Put(BaseCandidate, Str(<<"M", "a", "n", "u", "f", "a", "c", "t", "u", "r", "e", "r", "_", "P", "r", "o", "d", "u", "c", "t", "_", "C", "o", "d", "e">>), v) : v \in CodeRaws}
    \cup {Put(BaseCandidate, Str(<<"S", "u", "b", "s", "i", "d", "i", "a", "r", "y">>), v) : v \in SubsidiaryRaws}
    \cup {Put(BaseCandidate, Str(start_date), v) : v \in DateRaws}
    \cup {Put(BaseCandidate, Str(end_date), v) : v \in DateRaws}
    \cup {Put(BaseCandidate, Str(campaign_promotion_related), v) : v \in CampaignRaws}
    \cup {Put(BaseCandidate, Str(max_spq), v) : v \in MaxSpqRaws}
    \cup {Put(BaseCandidate, Str(product_id), v) : v \in TextRaws}
    \cup {Put(BaseCandidate, Str(product_name), v) : v \in TextRaws}

SparseVariants ==
    {SparseCandidate(c, s, f) :
        c \in {Str(<<"P", "X", "-", "7", "8", "9">>), Str(<<" ", "p", "x", "-", "7", "8", "9", " ">>), Str(<<"Z", "Z", "-", "1">>), None},
        s \in {Str(<<"n", "l">>), Str(<<"B", "e", "l", "g", "i", "e">>), Str(<<"F", "r", "a", "n", "c", "e">>), None},
        f \in {Str(<<"€", "7", ",", "5", "0">>), Str(<<"7", ".", "4", "9">>), Str(<<"1", "0", "%">>), FloatV(900),
               IntV(-3), None}}

TypedRecords ==
    {TypedRecord(n, f, q) :
        n \in {Str(<<"W", "i", "d", "g", "e", "t">>), Str(<<" ", "W", "i", "d", "g", "e", "t">>), Str(<<"n", "u", "l", "l">>), None},
        f \in {FloatV(750), None},
        q \in {IntV(100), None}}

\* objects of a batch that are not candidates the normalizer accepts, next
\* to some that are
MixedPool ==
    { BaseCandidate,
      SparseCandidate(Str(<<"Z", "Z", "-", "1">>), Str(<<"b", "e">>), Str(<<"0", ",", "5", "0">>)),
      Dict(<<>>),
      Obj(Str(<<"t", "e", "x", "t">>)),
      Obj(None),
      Dict(<< [k |-> IntV(1), v |-> Str(<<"x">>)],
              KV(subsidiary, Str(<<"n", "l">>)) >>),
      Dict(<< KV(subsidiary, Str(<<"n", "l">>)), KV(<<"S", "U", "B", "S", "I", "D", "I", "A", "R", "Y">>, Str(<<"b", "e">>)) >>) }

Lists(pool, lo, hi) ==
    {ListOf(q) : q \in UNION {[1..n -> pool] : n \in lo..hi}}

RawBatches ==
    {ListOf(<<c>>) : c \in FieldVariants \cup SparseVariants \cup TypedRecords}
    \cup Lists(MixedPool, 0, MaxBatch)
    \cup {NotAList}

\* reference rows as the CSV loader yields them: every cell a str, or None
\* for a cell the line does not have
RefRow(code, sub, comp) ==
    Dict(<< KV(mpc_header_internal, code), KV(subsidiary_header_internal, sub),
            KV(required_compensation_header_internal, comp),
            KV(<<"n", "o", "t", "e">>, Str(<<"x">>)) >>)

RefDatasets ==
    { ListOf(<< RefRow(Str(<<"p", "x", "-", "7", "8", "9">>), Str(<<"N", "L">>), Str(<<"7", ".", "5">>)) >>),
      ListOf(<<>>),
      ListOf(<< RefRow(Str(<<" ", "P", "X", "-", "7", "8", "9">>), Str(<<"n", "l", " ">>), Str(<<"9">>)),
                RefRow(Str(<<"p", "x", "-", "7", "8", "9">>), Str(<<"N", "L">>), Str(<<"7", ".", "5", "0">>)),
                RefRow(Str(<<"z", "z", "-", "1">>), Str(<<"B", "E">>), Str(<<"0", ".", "5">>)) >>),
      ListOf(<< RefRow(Str(<<"p", "x", "-", "7", "8", "9">>), Str(<<"N", "L">>), Str(<<"0", ".", "7", "5">>)),
                RefRow(Str(<<"p", "x", "-", "7", "8", "9">>), Str(<<"N", "L">>), Str(<<"a", "b", "c">>)),
                RefRow(Str(<<"p", "x", "-", "7", "8", "9">>), Str(<<>>), Str(<<"1">>)),
                RefRow(Str(<<" ", " ">>), Str(<<"N", "L">>), Str(<<"1">>)),
                RefRow(None, Str(<<"N", "L">>), Str(<<"1">>)),
                RefRow(Str(<<"p", "x", "-", "7", "8", "9">>), None, Str(<<"1">>)),
                RefRow(Str(<<"p", "x", "-", "7", "8", "9">>), Str(<<"B", "E">>), None) >>),
      ListOf(<< RefRow(Str(<<"P", "X", "-", "7", "8", "9">>), Str(<<"N", "l">>), Str(<<"-", "1">>)),
                RefRow(Str(<<"N", "u", "l", "l">>), Str(<<"N", "L">>), Str(<<" ", "5", " ">>)) >>) }

\* the valid-code sets the CSV loader yields (trimmed strings)
CodeSets ==
    { {<<"P", "X", "-", "7", "8", "9">>, <<"Z", "Z", "-", "1">>}, {<<"p", "x", "-", "7", "8", "9">>}, {} }

\* lists handed to the validator and the evaluator by a caller other than
\* the normalizer: items of any shape
Item(code, sub, factor) ==
    Dict(<< KV(manufacturer_product_code, code), KV(subsidiary, sub),
            KV(start_date, Str(<<"2", "0", "2", "4", "-", "0", "1", "-", "0", "1">>)), KV(end_date, Str(<<"2", "0", "2", "4", "-", "1", "2", "-", "3", "1">>)),
            KV(rebate_compensation_factor, factor) >>)

DirectPool ==
    { Item(Str(<<"P", "X", "-", "7", "8", "9">>), Str(<<"N", "L">>), FloatV(750)),
      Item(Str(<<"P", "X", "-", "7", "8", "9">>), Str(<<"N", "L">>), Str(<<"9">>)),
      Item(Str(<<"P", "X", "-", "7", "8", "9">>), Str(<<"N", "L">>), BigInt),
      Item(Str(<<"P", "X", "-", "7", "8", "9">>), Str(<<"N", "L">>), NaN),
      Item(Str(<<"P", "X", "-", "7", "8", "9">>), Str(<<"N", "L">>), BoolV(TRUE)),
      Item(Str(<<"P", "X", "-", "7", "8", "9">>), Str(<<"N", "L">>), List),
      Item(IntV(5), None, FloatV(900)),
      Item(Str(<<"P", "X", "-", "7", "8", "9">>), IntV(1), FloatV(900)),
      Item(None, IntV(1), FloatV(900)),
      Item(Str(<<" ">>), Str(<<"N", "L">>), FloatV(900)),
      Dict(<<>>),
      Obj(Str(<<"t", "e", "x", "t">>)) }

DirectRefs ==
    { ListOf(<< RefRow(Str(<<"p", "x", "-", "7", "8", "9">>), Str(<<"N", "L">>), Str(<<"7", ".", "5">>)) >>),
      ListOf(<< RefRow(Str(<<"p", "x", "-", "7", "8", "9">>), Str(<<"N", "L">>), IntV(1)) >>),
      ListOf(<< RefRow(Str(<<"p", "x", "-", "7", "8", "9">>), Str(<<"N", "L">>), Str(<<"N", "a", "N">>)) >>),
      ListOf(<< RefRow(Str(<<"p", "x", "-", "7", "8", "9">>), Str(<<"N", "L">>), BigInt) >>),
      ListOf(<< RefRow(Str(<<"p", "x", "-", "7", "8", "9">>), Str(<<"N", "L">>), List) >>),
      ListOf(<< RefRow(IntV(789), Str(<<"N", "L">>), Str(<<"7", ".", "5">>)) >>),
      ListOf(<< RefRow(Str(<<"p", "x", "-", "7", "8", "9">>), IntV(1), Str(<<"7", ".", "5">>)) >>),
      ListOf(<< Obj(Str(<<"t", "e", "x", "t">>)) >>),
      NotAList }

DirectBatches == Lists(DirectPool, 0, MaxBatch) \cup {NotAList}

\* the reply of the classification service to the question whether the
\* email is a rebate request: a text that says yes or does not, with a
\* confidence score (in hundredths) or none, or an API error
Reply(kind, yes, confidence) == [kind |-> kind, yes |-> yes, confidence |-> confidence]
NoReply == Reply("none", FALSE, None)
Replies ==
    { Reply("text", TRUE, FloatV(90)), Reply("text", TRUE, FloatV(85)),
      Reply("text", TRUE, FloatV(50)), Reply("text", TRUE, None),
      Reply("text", FALSE, FloatV(95)), Reply("APIConnectionError", FALSE, None) }

confidence_threshold == FloatV(85)

\* is_valid_rebate_request: True only for a "yes" with a confidence score at
\* or above the threshold; the three API errors are caught and give False
is_valid_rebate_request(reply) ==
    IF reply.kind # "text" THEN FALSE
    ELSE IF reply.yes
    THEN IF reply.confidence # None
         THEN FloatGeq(reply.confidence, confidence_threshold)
         ELSE FALSE
    ELSE FALSE

\* an email with the vendor list it is checked against and the reply the
\* classification service gives for it
Mail(from_email, is_spam, known_emails, reply) ==
    [from_email |-> from_email, is_spam |-> is_spam,
     known_emails |-> known_emails, reply |-> reply]
NoMail == Mail("", FALSE, {}, NoReply)
Senders == {"vendor@known.example", "someone@else.example"}
VendorLists == {{"vendor@known.example"}, {}}
Mails ==
    {Mail(f, sp, k, rp) : f \in Senders, sp \in BOOLEAN, k \in VendorLists, rp \in Replies}

validate_sender(email_metadata, known_emails) ==
    IF email_metadata.is_spam THEN FALSE
    ELSE IF email_metadata.from_email \notin known_emails THEN FALSE
    ELSE TRUE

\* what rebate_data_email_extractor can return: always a list (the
\* 'rebate_items' array of the reply, or [] on any error), of JSON values
BigFactorCandidate ==
    Put(BaseCandidate, Str(<<"R", "E", "B", "A", "T", "E", "_", "C", "O", "M", "P", "E", "N", "S", "A", "T", "I", "O", "N", "_", "F", "A", "C", "T", "O", "R">>), BigInt)
ExtractedBatches ==
    { ListOf(<<>>),
      ListOf(<<BaseCandidate>>),
      ListOf(<<BigFactorCandidate>>),
      ListOf(<<SparseCandidate(Str(<<"Z", "Z", "-", "1">>), Str(<<"b", "e">>), Str(<<"0", ",", "5", "0">>))>>),
      ListOf(<<Obj(Str(<<"t", "e", "x", "t">>)), BaseCandidate>>),
      ListOf(<<BaseCandidate, BigFactorCandidate>>) }

\* the accounts of Emails.csv, the three workers main() starts, the messages
\* a server can hold
Accounts == {1, 2}
NumWorkers == 3
Workers == 1..NumWorkers
MaxMessages == 4
MsgKinds == {"plain", "no_subject"}
Msg(id, kind) == [id |-> id, kind |-> kind]
Pair(account, msg) == [account |-> account, msg |-> msg]
NoPair == Pair(0, Msg(0, "none"))

\* ------------------------------------------------------------------- state
\* two pipeline runs (two emails); each has its own arguments and results
Runs == {1, 2}

VARIABLES
    pc,         \* pc[r]: the stage run r has reached
    direct,     \* direct[r]: the item list was handed in by the caller
    raw,        \* raw[r]: the batch the extraction service returned
    items,      \* items[r]: transformed_data, the list of items
    codes,      \* codes[r]: the valid-code set
    ref,        \* ref[r]: internal_product_data_full
    issues,     \* issues[r]: what the validator returned
    evaluated,  \* evaluated[r]: what the evaluator returned, as the
                \* positions in items[r] of the objects it holds
    lookup,     \* lookup[r]: internal_lookup of the evaluator's call
    exc,        \* exc[r]: the exception that ended the run, or "none"
    \* the orchestrator's first stages (rebate_request_agent2.py)
    mail,              \* mail[r]: the email, the vendor list and the reply
                       \* the classification service gives for it
    validation_sender, \* validation_sender[r]: what validate_sender returned
    request_valid,     \* request_valid[r]: what is_valid_rebate_request
                       \* returned (the orchestrator drops it)
    \* the listener and the workers (receive_email.py)
    inbox,          \* inbox[a]: the unseen messages of account a on its server
    delivered,      \* the number of messages the servers have received
    listener,       \* the listener's position and the account it is at
    unseen_emails,  \* the listener's fetched messages not yet put
    queue,          \* the items of the shared asyncio.Queue
    unfinished,     \* the queue's count of items put and not yet task_done
    worker,         \* worker[w]: its position and the pair it holds
    heavy,          \* the heavy tasks that are running
    put_log,        \* the pairs put on the queue, in the order of the puts
    take_log,       \* the pairs taken off the queue, in the order of the gets
    done_calls,     \* done_calls[id]: the task_done calls made for message id
    running         \* the program has not been ended by an exception

pipeline_vars == <<pc, direct, raw, items, codes, ref, issues, evaluated, lookup, exc>>
orchestrator_vars == <<mail, validation_sender, request_valid>>
queue_vars == <<inbox, delivered, listener, unseen_emails, queue, unfinished, worker, heavy, put_log, take_log, done_calls, running>>

vars == <<pipeline_vars, orchestrator_vars, queue_vars>>

Idle ==
    [pc |-> "idle", direct |-> FALSE, raw |-> NotAList, items |-> NotAList,
     codes |-> {}, ref |-> NotAList, mail |-> NoMail]

PipelineRun(batch, valid_codes, dataset) ==
    [pc |-> "extracted", direct |-> FALSE, raw |-> batch, items |-> NotAList,
     codes |-> valid_codes, ref |-> dataset, mail |-> NoMail]

DirectRun(list, valid_codes, dataset) ==
    [pc |-> "normalized", direct |-> TRUE, raw |-> NotAList, items |-> list,
     codes |-> valid_codes, ref |-> dataset, mail |-> NoMail]

\* an email handed to the orchestrator; the two CSV files it will load hold
\* valid_codes and dataset
ReceivedRun(m, valid_codes, dataset) ==
    [pc |-> "received", direct |-> FALSE, raw |-> NotAList, items |-> NotAList,
     codes |-> valid_codes, ref |-> dataset, mail |-> m]

\* the listener and the workers have not been started
ListenerOff ==
    /\ inbox = [a \in Accounts |-> <<>>]
    /\ delivered = 0
    /\ listener = [pc |-> "off", account |-> 1]
    /\ unseen_emails = <<>>
    /\ queue = <<>>
    /\ unfinished = 0
    /\ worker = [w \in Workers |-> [pc |-> "off", item |-> NoPair]]
    /\ heavy = {}
    /\ put_log = <<>>
    /\ take_log = <<>>
    /\ done_calls = [id \in 1..MaxMessages |-> 0]
    /\ running = FALSE

Start(run) ==
    /\ pc        = [r \in Runs |-> run[r].pc]
    /\ direct    = [r \in Runs |-> run[r].direct]
    /\ raw       = [r \in Runs |-> run[r].raw]
    /\ items     = [r \in Runs |-> run[r].items]
    /\ codes     = [r \in Runs |-> run[r].codes]
    /\ ref       = [r \in Runs |-> run[r].ref]
    /\ issues    = [r \in Runs |-> <<>>]
    /\ evaluated = [r \in Runs |-> <<>>]
    /\ lookup    = [r \in Runs |-> Dict(<<>>)]
    /\ exc       = [r \in Runs |-> "none"]
    /\ mail      = [r \in Runs |-> run[r].mail]
    /\ validation_sender = [r \in Runs |-> None]
    /\ request_valid     = [r \in Runs |-> None]
    /\ ListenerOff

\* one email: the pipeline on a raw batch, or a caller's list handed to the
\* validator and the evaluator
Init ==
    \/ \E b \in RawBatches, c \in CodeSets, d \in RefDatasets :
          Start(<<PipelineRun(b, c, d), Idle>>)
    \/ \E l \in DirectBatches, d \in DirectRefs :
          Start(<<DirectRun(l, {<<"P", "X", "-", "7", "8", "9">>}, d), Idle>>)

\* two emails: the second batch is the first one with other dates, and has
\* its own valid-code set and reference dataset
RunPool ==
    { BaseCandidate,
      SparseCandidate(Str(<<"Z", "Z", "-", "1">>), Str(<<"b", "e">>), Str(<<"0", ",", "5", "0">>)),
      SparseCandidate(Str(<<"p", "x", "-", "7", "8", "9">>), Str(<<"N", "L">>), FloatV(749)) }

DateVariants == { Str(<<"2", "0", "2", "4", "-", "0", "6", "-", "0", "1">>), Str(<<"s", "o", "o", "n">>), None }

RunRefs ==
    { ListOf(<< RefRow(Str(<<"p", "x", "-", "7", "8", "9">>), Str(<<"N", "L">>), Str(<<"7", ".", "5">>)) >>),
      ListOf(<< RefRow(Str(<<" ", "P", "X", "-", "7", "8", "9">>), Str(<<"n", "l", " ">>), Str(<<"9">>)),
                RefRow(Str(<<"p", "x", "-", "7", "8", "9">>), Str(<<"N", "L">>), Str(<<"7", ".", "4", "9">>)),
                RefRow(Str(<<"z", "z", "-", "1">>), Str(<<"B", "E">>), Str(<<"0", ".", "5">>)) >>) }

WithDates(batch, d) ==
    ListOf([i \in 1..Len(batch.elems) |->
               Put(Put(batch.elems[i], Str(start_date), d), Str(end_date), d)])

InitRuns ==
    \E b \in Lists(RunPool, 1, MaxBatch), d \in DateVariants,
       c1 \in CodeSets, c2 \in CodeSets, d1 \in RunRefs, d2 \in RunRefs :
          Start(<<PipelineRun(b, c1, d1), PipelineRun(WithDates(b, d), c2, d2)>>)

\* ----------------------------------------------------------------- actions
\* transformed_data = data_transformer.transform_extracted_data_list(...)
Normalize(r) ==
    /\ pc[r] = "extracted"
    /\ \E t \in {transform_extracted_data_list(raw[r])} :
           IF t.exc = "none"
           THEN /\ items' = [items EXCEPT ![r] = ListOf(t.items)]
                /\ pc' = [pc EXCEPT ![r] = "normalized"]
                /\ exc' = exc
           ELSE /\ pc' = [pc EXCEPT ![r] = "normalize_raised"]
                /\ exc' = [exc EXCEPT ![r] = t.exc]
                /\ items' = items
    /\ UNCHANGED <<orchestrator_vars, queue_vars>>
    /\ UNCHANGED <<direct, raw, codes, ref, issues, evaluated, lookup>>

\* variant: the validator stores the trimmed product code back in the item
ValidateTrimming(r) ==
    LET list    == items[r].elems
        trimmed == [i \in 1..Len(list) |->
                      IF IsDict(list[i]) /\ IsStr(Get(list[i], Str(manufacturer_product_code)))
                      THEN Put(list[i], Str(manufacturer_product_code),
                               Str(strip(Get(list[i], Str(manufacturer_product_code)).s)))
                      ELSE list[i]]
    IN  /\ pc[r] = "normalized"
        /\ issues' = [issues EXCEPT ![r] =
                         check_required_fields_and_validate_product_code(items[r], codes[r])]
        /\ items' = [items EXCEPT ![r] = [items[r] EXCEPT !.elems = trimmed]]
        /\ pc' = [pc EXCEPT ![r] = "validated"]
        /\ UNCHANGED <<orchestrator_vars, queue_vars>>
        /\ UNCHANGED <<direct, raw, codes, ref, evaluated, lookup, exc>>

\* validated_data = check_required_fields_and_validate_product_code(...)
Validate(r) ==
    /\ pc[r] = "normalized"
    /\ issues' = [issues EXCEPT ![r] =
                     check_required_fields_and_validate_product_code(items[r], codes[r])]
    /\ pc' = [pc EXCEPT ![r] = "validated"]
    /\ UNCHANGED <<orchestrator_vars, queue_vars>>
    /\ UNCHANGED <<direct, raw, items, codes, ref, evaluated, lookup, exc>>

\* variant: validation is a gate; an item the validator reported is not
\* desired whatever its factor
Gate(list, reported) ==
    [i \in 1..Len(list) |->
        IF (i - 1) \in reported /\ IsDict(list[i])
        THEN Put(list[i], Str(is_desired), BoolV(FALSE)) ELSE list[i]]

EvaluateGated(r) ==
    /\ pc[r] = "validated"
    /\ \E e \in {evaluate_rebate_desirability(items[r], ref[r])} :
       LET reported == {issues[r][k].item_index : k \in 1..Len(issues[r])}
       IN  /\ items' = [items EXCEPT ![r] =
                          [items[r] EXCEPT !.elems =
                              IF e.exc = "none" THEN Gate(e.items, reported) ELSE e.items]]
           /\ evaluated' = [evaluated EXCEPT ![r] = e.evaluated]
           /\ lookup' = [lookup EXCEPT ![r] = e.lookup]
           /\ exc' = [exc EXCEPT ![r] = e.exc]
           /\ pc' = [pc EXCEPT ![r] =
                        IF e.exc = "none" THEN "evaluated"
                        ELSE IF e.at = "lookup" THEN "lookup_raised"
                        ELSE "evaluate_raised"]
    /\ UNCHANGED <<orchestrator_vars, queue_vars>>
    /\ UNCHANGED <<direct, raw, codes, ref, issues>>

\* variant: the lookup table is cached; a call made after another call has
\* built a table uses that table
EvaluateCached(r) ==
    /\ pc[r] = "validated"
    /\ \E o \in Runs \ {r} :
       \E e \in {IF pc[o] = "evaluated"
                 THEN Only({[exc |-> l.exc, at |-> "items", items |-> l.items,
                             evaluated |-> l.evaluated, lookup |-> lookup[o]] :
                            l \in {EvaluateLoop(items[r].elems, 1, lookup[o], <<>>)}})
                 ELSE evaluate_rebate_desirability(items[r], ref[r])} :
           /\ items' = [items EXCEPT ![r] = [items[r] EXCEPT !.elems = e.items]]
           /\ evaluated' = [evaluated EXCEPT ![r] = e.evaluated]
           /\ lookup' = [lookup EXCEPT ![r] = e.lookup]
           /\ exc' = [exc EXCEPT ![r] = e.exc]
           /\ pc' = [pc EXCEPT ![r] =
                        IF e.exc = "none" THEN "evaluated"
                        ELSE IF e.at = "lookup" THEN "lookup_raised"
                        ELSE "evaluate_raised"]
    /\ UNCHANGED <<orchestrator_vars, queue_vars>>
    /\ UNCHANGED <<direct, raw, codes, ref, issues>>

\* variant: the call returns new items that hold the normalized key (the
\* trimmed, upper-cased product code) in place of the code of the input item
EvaluateRewritingCode(r) ==
    /\ pc[r] = "validated"
    /\ \E e \in {evaluate_rebate_desirability(items[r], ref[r])} :
           /\ items' = [items EXCEPT ![r] = [items[r] EXCEPT !.elems =
                  [i \in 1..Len(e.items) |->
                      IF IsDict(e.items[i])
                         /\ IsStr(Get(e.items[i], Str(manufacturer_product_code)))
                      THEN Put(e.items[i], Str(manufacturer_product_code),
                               Str(upper(strip(Get(e.items[i],
                                       Str(manufacturer_product_code)).s))))
                      ELSE e.items[i]]]]
           /\ evaluated' = [evaluated EXCEPT ![r] = e.evaluated]
           /\ lookup' = [lookup EXCEPT ![r] = e.lookup]
           /\ exc' = [exc EXCEPT ![r] = e.exc]
           /\ pc' = [pc EXCEPT ![r] =
                        IF e.exc = "none" THEN "evaluated"
                        ELSE IF e.at = "lookup" THEN "lookup_raised"
                        ELSE "evaluate_raised"]
    /\ UNCHANGED <<orchestrator_vars, queue_vars>>
    /\ UNCHANGED <<direct, raw, codes, ref, issues>>

\* evaluation_outcome = evaluate_rebate_desirability(transformed_data, ...)
Evaluate(r) ==
    /\ pc[r] = "validated"
    /\ \E e \in {evaluate_rebate_desirability(items[r], ref[r])} :
           /\ items' = [items EXCEPT ![r] = [items[r] EXCEPT !.elems = e.items]]
           /\ evaluated' = [evaluated EXCEPT ![r] = e.evaluated]
           /\ lookup' = [lookup EXCEPT ![r] = e.lookup]
           /\ exc' = [exc EXCEPT ![r] = e.exc]
           /\ pc' = [pc EXCEPT ![r] =
                        IF e.exc = "none" THEN "evaluated"
                        ELSE IF e.at = "lookup" THEN "lookup_raised"
                        ELSE "evaluate_raised"]
    /\ UNCHANGED <<orchestrator_vars, queue_vars>>
    /\ UNCHANGED <<direct, raw, codes, ref, issues>>

Next == \E r \in Runs : Normalize(r) \/ Validate(r) \/ Evaluate(r)

Spec == Init /\ [][Next]_vars

SpecRuns == InitRuns /\ [][Next]_vars

\* ------------------------------------------------------- the orchestrator
\* one email handed to test_is_valid_rebate_request
OrchestratorRefs ==
    { ListOf(<< RefRow(Str(<<"p", "x", "-", "7", "8", "9">>), Str(<<"N", "L">>), Str(<<"7", ".", "5">>)) >>),
      ListOf(<<>>) }

InitOrchestrator ==
    \E m \in Mails, c \in CodeSets, d \in OrchestratorRefs :
        Start(<<ReceivedRun(m, c, d), Idle>>)

\* validation_sender = email_extractor.validate_sender(metadata, known)
ValidateSender(r) ==
    /\ pc[r] = "received"
    /\ validation_sender' = [validation_sender EXCEPT ![r] =
                                BoolV(validate_sender(mail[r], mail[r].known_emails))]
    /\ pc' = [pc EXCEPT ![r] = "sender_validated"]
    /\ UNCHANGED <<direct, raw, items, codes, ref, issues, evaluated, lookup, exc>>
    /\ UNCHANGED <<mail, request_valid, queue_vars>>

\* is_valid_rebate_request(test_email): the value is not kept
Classify(r) ==
    /\ pc[r] = "sender_validated"
    /\ request_valid' = [request_valid EXCEPT ![r] =
                            BoolV(is_valid_rebate_request(mail[r].reply))]
    /\ pc' = [pc EXCEPT ![r] = "classified"]
    /\ UNCHANGED <<direct, raw, items, codes, ref, issues, evaluated, lookup, exc>>
    /\ UNCHANGED <<mail, validation_sender, queue_vars>>

\* extracting_data = rebate_data_email_extractor(test_email)
Extract(r) ==
    /\ pc[r] = "classified"
    /\ \E b \in ExtractedBatches : raw' = [raw EXCEPT ![r] = b]
    /\ pc' = [pc EXCEPT ![r] = "extracted"]
    /\ UNCHANGED <<direct, items, codes, ref, issues, evaluated, lookup, exc>>
    /\ UNCHANGED <<orchestrator_vars, queue_vars>>

NextOrchestrator ==
    \E r \in Runs : \/ ValidateSender(r) \/ Classify(r) \/ Extract(r)
                    \/ Normalize(r) \/ Validate(r) \/ Evaluate(r)

SpecOrchestrator == InitOrchestrator /\ [][NextOrchestrator]_vars

\* ------------------------------------------- the listener and the workers
\* the pipeline is not run by receive_email.py
PipelineOff ==
    /\ pc        = [r \in Runs |-> "idle"]
    /\ direct    = [r \in Runs |-> FALSE]
    /\ raw       = [r \in Runs |-> NotAList]
    /\ items     = [r \in Runs |-> NotAList]
    /\ codes     = [r \in Runs |-> {}]
    /\ ref       = [r \in Runs |-> NotAList]
    /\ issues    = [r \in Runs |-> <<>>]
    /\ evaluated = [r \in Runs |-> <<>>]
    /\ lookup    = [r \in Runs |-> Dict(<<>>)]
    /\ exc       = [r \in Runs |-> "none"]
    /\ mail      = [r \in Runs |-> NoMail]
    /\ validation_sender = [r \in Runs |-> None]
    /\ request_valid     = [r \in Runs |-> None]

\* main(): three workers at queue.get() and the listener at its first
\* account; the queue is empty
InitQueue ==
    /\ PipelineOff
    /\ inbox = [a \in Accounts |-> <<>>]
    /\ delivered = 0
    /\ listener = [pc |-> "fetch", account |-> 1]
    /\ unseen_emails = <<>>
    /\ queue = <<>>
    /\ unfinished = 0
    /\ worker = [w \in Workers |-> [pc |-> "get", item |-> NoPair]]
    /\ heavy = {}
    /\ put_log = <<>>
    /\ take_log = <<>>
    /\ done_calls = [id \in 1..MaxMessages |-> 0]
    /\ running = TRUE

\* a mail server receives a message for an account
Deliver(a, kind) ==
    /\ running /\ delivered < MaxMessages
    /\ delivered' = delivered + 1
    /\ inbox' = [inbox EXCEPT ![a] = Append(@, Msg(delivered + 1, kind))]
    /\ UNCHANGED <<listener, unseen_emails, queue, unfinished, worker, heavy,
                   put_log, take_log, done_calls, running>>
    /\ UNCHANGED <<pipeline_vars, orchestrator_vars>>

\* unseen_emails = await asyncio.to_thread(fetch_unseen_emails, account):
\* the unseen messages of the account are fetched (and are seen from then on)
Fetch ==
    /\ running /\ listener.pc = "fetch"
    /\ unseen_emails' = inbox[listener.account]
    /\ inbox' = [inbox EXCEPT ![listener.account] = <<>>]
    /\ listener' = [listener EXCEPT !.pc = "put"]
    /\ UNCHANGED <<delivered, queue, unfinished, worker, heavy, put_log, take_log,
                   done_calls, running>>
    /\ UNCHANGED <<pipeline_vars, orchestrator_vars>>

\* await queue.put((account["email"], msg)) for the next fetched message;
\* Queue.put appends the item and counts it as unfinished
QueuePut ==
    /\ running /\ listener.pc = "put" /\ unseen_emails # <<>>
    /\ \E item \in {Pair(listener.account, Head(unseen_emails))} :
           /\ queue' = Append(queue, item)
           /\ put_log' = Append(put_log, item)
    /\ unfinished' = unfinished + 1
    /\ unseen_emails' = Tail(unseen_emails)
    /\ UNCHANGED <<inbox, delivered, listener, worker, heavy, take_log, done_calls,
                   running>>
    /\ UNCHANGED <<pipeline_vars, orchestrator_vars>>

\* the end of the loop over unseen_emails: the next account, or
\* asyncio.sleep(30) after the last one
NextAccount ==
    /\ running /\ listener.pc = "put" /\ unseen_emails = <<>>
    /\ listener' = IF listener.account + 1 \in Accounts
                   THEN [pc |-> "fetch", account |-> listener.account + 1]
                   ELSE [pc |-> "sleep", account |-> listener.account]
    /\ UNCHANGED <<inbox, delivered, unseen_emails, queue, unfinished, worker,
                   heavy, put_log, take_log, done_calls, running>>
    /\ UNCHANGED <<pipeline_vars, orchestrator_vars>>

\* the sleep is over: the accounts are loaded again and the first is fetched
Wake ==
    /\ running /\ listener.pc = "sleep"
    /\ listener' = [pc |-> "fetch", account |-> 1]
    /\ UNCHANGED <<inbox, delivered, unseen_emails, queue, unfinished, worker,
                   heavy, put_log, take_log, done_calls, running>>
    /\ UNCHANGED <<pipeline_vars, orchestrator_vars>>

\* the exception reading the message raises, or "none":
\* clean_subject(msg["Subject"]) is decode_header(None), a TypeError, for a
\* message without a Subject header (the decoding of a body that is not
\* UTF-8 raises in the same way, some lines further)
ReadMessage(msg) ==
    IF msg.kind = "no_subject" THEN "TypeError" ELSE "none"

\* variant: the worker awaits the heavy task before it calls task_done
WorkAwaitingHeavyTask(w) ==
    /\ running /\ worker[w].pc = "get" /\ queue # <<>>
    /\ queue' = Tail(queue)
    /\ take_log' = Append(take_log, Head(queue))
    /\ IF ReadMessage(Head(queue).msg) # "none"
       THEN /\ worker' = [worker EXCEPT ![w] = [pc |-> "failed", item |-> Head(queue)]]
            /\ UNCHANGED <<heavy, unfinished, done_calls>>
       ELSE /\ heavy' = heavy \ {Head(queue)}
            /\ unfinished' = unfinished - 1
            /\ done_calls' = [done_calls EXCEPT ![Head(queue).msg.id] = @ + 1]
            /\ worker' = worker
    /\ UNCHANGED <<inbox, delivered, listener, unseen_emails, put_log, running>>
    /\ UNCHANGED <<pipeline_vars, orchestrator_vars>>

\* one turn of worker_loop, which runs without a suspension from the return
\* of queue.get() to the next queue.get(): the worker gets the oldest item,
\* reads the subject and the body, creates the heavy task and calls
\* queue.task_done(); an exception ends the worker's task with the item
\* taken and task_done not called
Work(w) ==
    /\ running /\ worker[w].pc = "get" /\ queue # <<>>
    /\ queue' = Tail(queue)
    /\ take_log' = Append(take_log, Head(queue))
    /\ IF ReadMessage(Head(queue).msg) # "none"
       THEN /\ worker' = [worker EXCEPT ![w] = [pc |-> "failed", item |-> Head(queue)]]
            /\ UNCHANGED <<heavy, unfinished, done_calls>>
       ELSE /\ heavy' = heavy \cup {Head(queue)}
            /\ unfinished' = unfinished - 1
            /\ done_calls' = [done_calls EXCEPT ![Head(queue).msg.id] = @ + 1]
            /\ worker' = worker
    /\ UNCHANGED <<inbox, delivered, listener, unseen_emails, put_log, running>>
    /\ UNCHANGED <<pipeline_vars, orchestrator_vars>>

\* simulate_heavy_task: the sleep of a heavy task is over and it ends
HeavyTaskEnds(task) ==
    /\ running /\ task \in heavy
    /\ heavy' = heavy \ {task}
    /\ UNCHANGED <<inbox, delivered, listener, unseen_emails, queue, unfinished,
                   worker, put_log, take_log, done_calls, running>>
    /\ UNCHANGED <<pipeline_vars, orchestrator_vars>>

\* await asyncio.gather(listener, *workers) raises the exception of a worker
\* that failed; asyncio.run cancels the listener, the other workers and the
\* heavy tasks, and the program ends
Shutdown ==
    /\ running /\ \E w \in Workers : worker[w].pc = "failed"
    /\ running' = FALSE
    /\ UNCHANGED <<inbox, delivered, listener, unseen_emails, queue, unfinished,
                   worker, heavy, put_log, take_log, done_calls>>
    /\ UNCHANGED <<pipeline_vars, orchestrator_vars>>

NextQueue ==
    \/ \E a \in Accounts, kind \in MsgKinds : Deliver(a, kind)
    \/ Fetch
    \/ QueuePut
    \/ NextAccount
    \/ Wake
    \/ \E w \in Workers : Work(w)
    \/ \E task \in heavy : HeavyTaskEnds(task)
    \/ Shutdown

SpecQueue == InitQueue /\ [][NextQueue]_vars

\* ------------------------------------------------------------------ claims
Elems(r)      == items[r].elems
Flag(item)    == Get(item, Str(is_desired))
CodeOf(item)  == Get(item, Str(manufacturer_product_code))
SubOf(item)   == Get(item, Str(subsidiary))
FactorOf(item) == Get(item, Str(rebate_compensation_factor))
Identity(n)   == [i \in 1..n |-> i]
Returned(r)   == pc[r] = "evaluated"
Normalized(r) == ~direct[r] /\ pc[r] \in {"normalized", "validated", "evaluated",
                                          "lookup_raised", "evaluate_raised"}

\* the item's key is in the lookup table
KeyPresent(item, table) ==
    /\ IsStr(CodeOf(item)) /\ IsStr(SubOf(item))
    /\ HasKey(table, LookupKey(CodeOf(item), SubOf(item)))
Required(item, table) == Get(table, LookupKey(CodeOf(item), SubOf(item)))

\* the number v is at least the float req (a bigint is above every float,
\* nan is at least nothing and nothing is at least nan)
AtLeast(v, req) ==
    /\ v # NaN /\ req # NaN
    /\ \/ v.t = "bigint"
       \/ (IF v.t = "float" THEN v.n ELSE 100 * v.n) >= req.n

\* C1 as stated: when the evaluator returns, every item whose key is in the
\* lookup table and whose factor is a number has
\* is_desired = (offered factor >= required factor).
C1_DesiredIffAtLeastRequired ==
    \A r \in Runs : Returned(r) =>
        \A i \in 1..Len(Elems(r)) :
            LET item == Elems(r)[i]
            IN  (IsDict(item) /\ KeyPresent(item, lookup[r]) /\ IsNumber(FactorOf(item)))
                => Flag(item) = BoolV(AtLeast(FactorOf(item), Required(item, lookup[r])))

\* C1 amended: when the evaluator returns, every item whose key is in the
\* lookup table and whose factor is a number that float() converts has
\* is_desired = (offered >= required), a tie giving true and any lower offer
\* false; a number float() cannot convert gives false.
C1_DesiredIffConvertibleAtLeastRequired ==
    \A r \in Runs : Returned(r) =>
        \A i \in 1..Len(Elems(r)) :
            LET item == Elems(r)[i]
            IN  (IsDict(item) /\ KeyPresent(item, lookup[r]) /\ IsNumber(FactorOf(item)))
                => IF PyFloat(FactorOf(item)).exc = "none"
                   THEN Flag(item) = BoolV(AtLeast(FactorOf(item), Required(item, lookup[r])))
                   ELSE Flag(item) = BoolV(FALSE)

\* an item whose offered factor equals the required one has been found desired
C1_TieIsDesired ==
    \E r \in Runs : Returned(r) /\
        \E i \in 1..Len(Elems(r)) :
            LET item == Elems(r)[i]
            IN  /\ IsDict(item) /\ KeyPresent(item, lookup[r])
                /\ FactorOf(item).t = "float"
                /\ FactorOf(item).n = Required(item, lookup[r]).n
                /\ Flag(item) = BoolV(TRUE)

Blank(v) == v = None \/ (IsStr(v) /\ strip(v.s) = <<>>)

\* one of the conditions under which an item is not desired
NotDesirable(item, table) ==
    \/ Blank(CodeOf(item)) \/ Blank(SubOf(item))
    \/ (IsStr(CodeOf(item)) /\ IsStr(SubOf(item)) /\ ~KeyPresent(item, table))
    \/ FactorOf(item) = None \/ ~IsNumber(FactorOf(item))

\* the loop has flagged every item before position i
Reached(r, i) ==
    \A j \in 1..(i - 1) : IsDict(Elems(r)[j]) /\ HasKey(Elems(r)[j], Str(is_desired))

\* C2: once the evaluator has built its table and gone through the list,
\* every item it reached that has a missing or blank code or subsidiary, a
\* key absent from the table, or a null or non-numeric factor carries
\* is_desired = false, whatever its other fields hold.
C2_NotDesirableIsFalse ==
    \A r \in Runs : pc[r] \in {"evaluated", "evaluate_raised"} =>
        \A i \in 1..Len(Elems(r)) :
            LET item == Elems(r)[i]
            IN  (Reached(r, i) /\ IsDict(item) /\ NotDesirable(item, lookup[r]))
                => Flag(item) = BoolV(FALSE)

\* C3: when the evaluator returns, the returned list holds the items of the
\* input list, all of them and in their order, and every item carries a
\* boolean is_desired.
C3_EveryItemReturnedWithFlag ==
    \A r \in Runs : Returned(r) =>
        /\ evaluated[r] = Identity(Len(Elems(r)))
        /\ \A i \in 1..Len(Elems(r)) :
              /\ HasKey(Elems(r)[i], Str(is_desired))
              /\ Flag(Elems(r)[i]).t = "bool"

\* a list of two or more items returned, one without a product code and one
\* found desired
C3_MixedListReturned ==
    \E r \in Runs : Returned(r) /\ Len(Elems(r)) >= 2
        /\ \E i \in 1..Len(Elems(r)) : CodeOf(Elems(r)[i]) = None
        /\ \E j \in 1..Len(Elems(r)) : Flag(Elems(r)[j]) = BoolV(TRUE)

\* a candidate without its start_date and end_date
DropDates(c) ==
    IF IsDict(c) /\ AllKeysStr(c)
    THEN Dict(SelectSeq(c.kv, LAMBDA q : lower(q.k.s) \notin {start_date, end_date}))
    ELSE c

\* two raw batches that differ in the dates of their candidates at most
SameButDates(b1, b2) ==
    /\ b1.kind = b2.kind
    /\ Len(b1.elems) = Len(b2.elems)
    /\ \A i \in 1..Len(b1.elems) : DropDates(b1.elems[i]) = DropDates(b2.elems[i])

DesiredVector(r) == [i \in 1..Len(Elems(r)) |-> Flag(Elems(r)[i])]

Reported(r, i) == \E k \in 1..Len(issues[r]) : issues[r][k].item_index = i - 1

\* C4: validation is not a gate.  Every normalized item reaches the
\* evaluator and is returned with its flag, reported by the validator or
\* not; and two runs that differ only in the valid-code set or in the dates
\* of the items give every item the same is_desired.
C4_ValidationIsNotAGate ==
    /\ \A r \in Runs : (Returned(r) /\ ~direct[r]) =>
          /\ evaluated[r] = Identity(Len(Elems(r)))
          /\ \A i \in 1..Len(Elems(r)) : HasKey(Elems(r)[i], Str(is_desired))
    /\ (Returned(1) /\ Returned(2) /\ ref[1] = ref[2] /\ SameButDates(raw[1], raw[2]))
          => DesiredVector(1) = DesiredVector(2)

\* two runs on the same reference data whose validation outcomes differ, with
\* an item the validator reported found desired
C4_ReportedItemDesired ==
    /\ Returned(1) /\ Returned(2) /\ ref[1] = ref[2]
    /\ SameButDates(raw[1], raw[2])
    /\ issues[1] # issues[2]
    /\ \E i \in 1..Len(Elems(2)) :
          Reported(2, i) /\ ~Reported(1, i) /\ Flag(Elems(2)[i]) = BoolV(TRUE)

\* C5: no exception leaves evaluate_rebate_desirability, neither from the
\* construction of the lookup table nor from the evaluation of an item; the
\* call returns whatever the items and the reference rows hold.
C5_EvaluatorNeverRaises ==
    \A r \in Runs : pc[r] \notin {"lookup_raised", "evaluate_raised"}

\* C6: after normalization rebate_compensation_factor is null or a strictly
\* positive float, for every raw value of the field.
C6_FactorNullOrPositive ==
    \A r \in Runs : Normalized(r) =>
        \A i \in 1..Len(Elems(r)) :
            LET f == FactorOf(Elems(r)[i])
            IN  f = None \/ (f.t = "float" /\ f.n > 0)

\* C7: every item the normalizer returns has all nine recognized keys,
\* whatever keys the raw candidate had.
C7_AllNineKeys ==
    \A r \in Runs : Normalized(r) =>
        \A i \in 1..Len(Elems(r)) :
            \A k \in 1..Len(expected_fields) :
                HasKey(Elems(r)[i], Str(expected_fields[k]))

\* an empty mapping has been normalized into an item
C7_EmptyMappingNormalized ==
    \E r \in Runs : Normalized(r) /\ pc[r] = "normalized"
        /\ Len(Elems(r)) >= 1
        /\ \E i \in 1..Len(raw[r].elems) : raw[r].elems[i] = Dict(<<>>)

IsoDate(v) == IsStr(v) /\ Len(v.s) = 10 /\ ParsesAsDate(v.s)

\* a record with the canonical keys and a value of the canonical type in each
Canonical(o) ==
    /\ IsDict(o)
    /\ [i \in 1..Len(o.kv) |-> o.kv[i].k] = [i \in 1..Len(expected_fields) |-> Str(expected_fields[i])]
    /\ \A f \in {manufacturer_product_code, product_id, product_name} :
          Get(o, Str(f)) = None \/ IsStr(Get(o, Str(f)))
    /\ SubOf(o) \in {None, Str(<<"N", "L">>), Str(<<"B", "E">>), Str(<<"D", "E">>)}
    /\ \A f \in {start_date, end_date} : Get(o, Str(f)) = None \/ IsoDate(Get(o, Str(f)))
    /\ Get(o, Str(campaign_promotion_related)).t \in {"none", "bool"}
    /\ FactorOf(o) = None \/ (FactorOf(o).t = "float" /\ FactorOf(o).n > 0)
    /\ Get(o, Str(max_spq)) = None
          \/ (Get(o, Str(max_spq)).t = "int" /\ Get(o, Str(max_spq)).n >= 0)

\* its text fields are trimmed and none is the word "null"
TrimmedText(o) ==
    \A f \in {manufacturer_product_code, product_id, product_name} :
        IsStr(Get(o, Str(f))) =>
            /\ strip(Get(o, Str(f)).s) = Get(o, Str(f)).s
            /\ lower(Get(o, Str(f)).s) # <<"n", "u", "l", "l">>

AllCanonical(r) ==
    /\ raw[r].kind = "list" /\ raw[r].elems # <<>>
    /\ \A i \in 1..Len(raw[r].elems) : Canonical(raw[r].elems[i])

\* C8 as stated: normalizing a batch of records that already have the
\* canonical keys and types returns the records unchanged.
C8_TypedRecordUnchanged ==
    \A r \in Runs : (pc[r] = "normalized" /\ ~direct[r] /\ AllCanonical(r))
        => Elems(r) = raw[r].elems

\* C8 amended: normalizing what the normalizer returned gives the same list
\* again, and a record that has the canonical keys and types is returned
\* unchanged when its text fields are trimmed and are not the word "null".
C8_Idempotent ==
    \A r \in Runs : (pc[r] = "normalized" /\ ~direct[r]) =>
        /\ transform_extracted_data_list(items[r]) = [exc |-> "none", items |-> Elems(r)]
        /\ (AllCanonical(r) /\ \A i \in 1..Len(raw[r].elems) : TrimmedText(raw[r].elems[i]))
              => Elems(r) = raw[r].elems

\* a canonical record with trimmed text has been normalized
C8_CanonicalNormalized ==
    \E r \in Runs : pc[r] = "normalized" /\ ~direct[r] /\ AllCanonical(r)
        /\ (\A i \in 1..Len(raw[r].elems) : TrimmedText(raw[r].elems[i]))
        /\ FactorOf(Elems(r)[1]) # None
        /\ Elems(r) = raw[r].elems

Mappings(r) == SelectSeq(raw[r].elems, IsDict)
Accepted(r) == SelectSeq(raw[r].elems, LAMBDA c : IsDict(c) /\ AllKeysStr(c))

\* C9 as stated: the normalizer returns one item per mapping of the batch;
\* no mapping is dropped.
C9_OneItemPerMapping ==
    \A r \in Runs : (pc[r] = "normalized" /\ ~direct[r]) =>
        Len(Elems(r)) = Len(Mappings(r))

\* C9 amended: the list the normalizer returns has exactly one item per
\* mapping whose keys are all strings, in input order, item i being the
\* transform of the i-th such mapping; a mapping with a key that is not a
\* string is dropped, as an object that is not a mapping is.
C9_OneItemPerStringKeyedMapping ==
    \A r \in Runs : (pc[r] = "normalized" /\ ~direct[r]) =>
        Elems(r) = [i \in 1..Len(Accepted(r)) |-> TransformItem(Accepted(r)[i]).item]

\* a batch of two different mappings has been normalized into two items
C9_TwoMappingsNormalized ==
    \E r \in Runs : pc[r] = "normalized" /\ ~direct[r]
        /\ Len(raw[r].elems) = 2 /\ Len(Accepted(r)) = 2
        /\ Len(Elems(r)) = 2 /\ Elems(r)[1] # Elems(r)[2]

\* C10: normalization never fails; transform_extracted_data_list returns a
\* list for any batch and any raw value.
C10_NormalizerNeverRaises ==
    \A r \in Runs : pc[r] # "normalize_raised"

\* the validator has returned and the evaluator has not yet run
Validated(r) == pc[r] = "validated"

\* the fields named by the issues reported for the item at position i
IssueFields(r, i) ==
    UNION {{issues[r][k].issues[j].field : j \in 1..Len(issues[r][k].issues)} :
              k \in {k \in 1..Len(issues[r]) : issues[r][k].item_index = i - 1}}

\* the number of issues reported for the item at position i
IssueCount(r, i) ==
    LET ks == {k \in 1..Len(issues[r]) : issues[r][k].item_index = i - 1}
    IN  IF ks = {} THEN 0 ELSE Len(issues[r][CHOOSE k \in ks : TRUE].issues)

\* a number that is strictly greater than 0 (nan is not)
Positive(v) == v.t = "bigint" \/ (v # NaN /\ v.n > 0)

\* the value of a required field is not a valid one
Invalid(field, v, valid_codes) ==
    IF field = subsidiary THEN v \notin {Str(<<"N", "L">>), Str(<<"B", "E">>), Str(<<"D", "E">>)}
    ELSE IF field = manufacturer_product_code
    THEN ~IsStr(v) \/ strip(v.s) \notin valid_codes
    ELSE IF field \in {start_date, end_date}
    THEN ~IsStr(v) \/ ~ParsesAsDate(v.s)
    ELSE ~IsNumber(v) \/ ~Positive(v)

RequiredFieldSet == {required_fields[k] : k \in 1..Len(required_fields)}

\* C11: for every dictionary item the validator reports an issue for a
\* required field if and only if the field is missing (null or blank) or
\* invalid (subsidiary not exactly NL, BE or DE; trimmed code not in the
\* valid-code set; date not parsing as YYYY-MM-DD; factor not a number or not
\* > 0); it reports nothing about any other field, and an item whose five
\* required fields are present and valid has no issue.
C11_IssueIffMissingOrInvalid ==
    \A r \in Runs : Validated(r) =>
        \A i \in 1..Len(Elems(r)) :
            LET item == Elems(r)[i]
            IN  IsDict(item) =>
                /\ \A f \in RequiredFieldSet :
                       (f \in IssueFields(r, i)) <=>
                           (Blank(Get(item, Str(f))) \/ Invalid(f, Get(item, Str(f)), codes[r]))
                /\ IssueFields(r, i) \subseteq RequiredFieldSet
                /\ (\A f \in RequiredFieldSet :
                        ~Blank(Get(item, Str(f))) /\ ~Invalid(f, Get(item, Str(f)), codes[r]))
                   => ~Reported(r, i)

\* the entries of the validator's result that name the item at position i
EntriesOf(r, i) == {k \in 1..Len(issues[r]) : issues[r][k].item_index = i - 1}

\* C12: the validator returns exactly one entry {item_index, issues} for each
\* item that has at least one issue and none for an item without issues;
\* item_index is the item's (0-based) position in the list, the entries are
\* in ascending item_index and no entry has an empty issues list; an item
\* that is not a dictionary gets exactly one issue and no field check.
C12_OneEntryPerItemWithIssues ==
    \A r \in Runs : Validated(r) =>
        /\ \A k \in 1..Len(issues[r]) :
               /\ issues[r][k].item_index \in 0..(Len(Elems(r)) - 1)
               /\ issues[r][k].issues # <<>>
        /\ \A k, l \in 1..Len(issues[r]) :
               k < l => issues[r][k].item_index < issues[r][l].item_index
        /\ \A i \in 1..Len(Elems(r)) :
               LET item == Elems(r)[i]
               IN  IF IsDict(item)
                   THEN LET found == ItemIssues(item, required_fields, codes[r])
                        IN  IF found = <<>> THEN EntriesOf(r, i) = {}
                            ELSE /\ Cardinality(EntriesOf(r, i)) = 1
                                 /\ \A k \in EntriesOf(r, i) : issues[r][k].issues = found
                   ELSE /\ Cardinality(EntriesOf(r, i)) = 1
                        /\ \A k \in EntriesOf(r, i) :
                               /\ Len(issues[r][k].issues) = 1
                               /\ issues[r][k].issues[1].field \notin RequiredFieldSet

\* a list whose first item has no issue and whose second item is not a
\* dictionary has been validated: the one entry names position 1
C12_SecondItemReported ==
    \E r \in Runs : Validated(r) /\ Len(Elems(r)) = 2
        /\ IsDict(Elems(r)[1]) /\ ~IsDict(Elems(r)[2])
        /\ Len(issues[r]) = 1 /\ issues[r][1].item_index = 1

\* the reference rows the lookup builder accepts: code and subsidiary are
\* non-blank strings and the required compensation converts to a float
RowCode(row) == Get(row, Str(mpc_header_internal))
RowSub(row)  == Get(row, Str(subsidiary_header_internal))
RowComp(row) == Get(row, Str(required_compensation_header_internal))
RowAccepted(row) ==
    /\ IsDict(row)
    /\ IsStr(RowCode(row)) /\ ~Blank(RowCode(row))
    /\ IsStr(RowSub(row)) /\ ~Blank(RowSub(row))
    /\ RowComp(row) # None /\ PyFloat(RowComp(row)).exc = "none"

\* item and row have the same code but for surrounding blanks and letter
\* case, and the same subsidiary but for surrounding blanks and letter case
SameKey(item, row) ==
    /\ lower(strip(CodeOf(item).s)) = lower(strip(RowCode(row).s))
    /\ upper(strip(SubOf(item).s)) = upper(strip(RowSub(row).s))

\* the item has a code and a subsidiary that are non-blank strings
Keyed(item) ==
    /\ IsDict(item)
    /\ IsStr(CodeOf(item)) /\ ~Blank(CodeOf(item))
    /\ IsStr(SubOf(item)) /\ ~Blank(SubOf(item))

\* C13: the validator flags a (non-blank string) product code as invalid
\* exactly when its trimmed text is not a member of the valid-code set, a
\* code that differs from a member only in letter case included; the
\* evaluator still matches the same item with a reference row whose code
\* differs only in letter case.
C13_CodeCheckCaseSensitive ==
    \A r \in Runs : pc[r] \in {"validated", "evaluated"} =>
        \A i \in 1..Len(Elems(r)) :
            LET item == Elems(r)[i]
            IN  /\ (IsDict(item) /\ IsStr(CodeOf(item)) /\ ~Blank(CodeOf(item)))
                   => ((manufacturer_product_code \in IssueFields(r, i))
                          <=> (strip(CodeOf(item).s) \notin codes[r]))
                /\ (Returned(r) /\ Keyed(item))
                   => \A k \in 1..Len(ref[r].elems) :
                          (RowAccepted(ref[r].elems[k]) /\ SameKey(item, ref[r].elems[k]))
                          => KeyPresent(item, lookup[r])

\* an item whose code is in the valid-code set only in another letter case
\* has been flagged by the validator and found desired by the evaluator
C13_FlaggedCodeStillMatched ==
    \E r \in Runs : Returned(r) /\
        \E i \in 1..Len(Elems(r)) :
            LET item == Elems(r)[i]
            IN  /\ Keyed(item)
                /\ strip(CodeOf(item).s) \notin codes[r]
                /\ lower(strip(CodeOf(item).s)) \in {lower(c) : c \in codes[r]}
                /\ manufacturer_product_code \in IssueFields(r, i)
                /\ Flag(item) = BoolV(TRUE)

\* C14: the validator never mutates its inputs.  The step in which
\* check_required_fields_and_validate_product_code runs leaves the item
\* list, every item's keys and values and the valid-code set as they were,
\* whether it finds issues or not; only the returned issues are new.
C14_ValidatorLeavesInputs ==
    [][(\E r \in Runs : Validate(r))
          => (items' = items /\ codes' = codes /\ raw' = raw /\ ref' = ref)]_vars

\* a list of two items has been validated and issues were found
C14_IssuesFound ==
    \E r \in Runs : Validated(r) /\ Len(Elems(r)) = 2 /\ issues[r] # <<>>

\* the evaluator has built its lookup table and gone through the items
TableBuilt(r) == pc[r] \in {"evaluated", "evaluate_raised"}

\* C15: lookup key matching is case-insensitive on the code and on the
\* subsidiary.  An item (with a non-blank string code and subsidiary) finds
\* an entry in the table if and only if some accepted reference row has the
\* same code after trimming and lower-casing and the same subsidiary after
\* trimming and upper-casing.
C15_MatchIffSameNormalizedKey ==
    \A r \in Runs : TableBuilt(r) =>
        \A i \in 1..Len(Elems(r)) :
            LET item == Elems(r)[i]
            IN  Keyed(item) =>
                (KeyPresent(item, lookup[r])
                    <=> \E k \in 1..Len(ref[r].elems) :
                            RowAccepted(ref[r].elems[k]) /\ SameKey(item, ref[r].elems[k]))

\* an item has matched a row whose code and subsidiary are written in
\* another letter case, and was found desired
C15_MatchedAcrossCase ==
    \E r \in Runs : Returned(r) /\
        \E i \in 1..Len(Elems(r)), k \in 1..Len(ref[r].elems) :
            LET item == Elems(r)[i]
                row  == ref[r].elems[k]
            IN  /\ Keyed(item) /\ RowAccepted(row) /\ SameKey(item, row)
                /\ strip(CodeOf(item).s) # strip(RowCode(row).s)
                /\ strip(SubOf(item).s) # strip(RowSub(row).s)
                /\ KeyPresent(item, lookup[r])
                /\ Flag(item) = BoolV(TRUE)

\* the last accepted reference row that has the key of row k
LastWithKey(r, k) ==
    LET same == {l \in 1..Len(ref[r].elems) :
                    /\ RowAccepted(ref[r].elems[l])
                    /\ LookupKey(RowCode(ref[r].elems[l]), RowSub(ref[r].elems[l]))
                         = LookupKey(RowCode(ref[r].elems[k]), RowSub(ref[r].elems[k]))}
    IN  ref[r].elems[CHOOSE l \in same : \A m \in same : m <= l]

\* C16: last-write-wins.  When several accepted reference rows have the same
\* normalized key, the table holds the required compensation of the last of
\* them in dataset order, an item with that key is compared against that
\* value, and the duplicate is not an error.
C16_LastWriteWins ==
    \A r \in Runs : TableBuilt(r) =>
        /\ \A k \in 1..Len(ref[r].elems) :
               RowAccepted(ref[r].elems[k]) =>
                   Get(lookup[r], LookupKey(RowCode(ref[r].elems[k]), RowSub(ref[r].elems[k])))
                       = PyFloat(RowComp(LastWithKey(r, k))).val
        /\ Returned(r) =>
               \A i \in 1..Len(Elems(r)), k \in 1..Len(ref[r].elems) :
                   LET item == Elems(r)[i]
                       row  == ref[r].elems[k]
                   IN  (/\ Keyed(item) /\ RowAccepted(row) /\ SameKey(item, row)
                        /\ FactorOf(item).t = "float")
                       => Flag(item) = BoolV(AtLeast(FactorOf(item),
                                                     PyFloat(RowComp(LastWithKey(r, k))).val))

\* two accepted rows have the same key and different required compensations,
\* and an item that offers less than the first and no less than the last
\* was found desired
C16_LaterRowDecided ==
    \E r \in Runs : Returned(r) /\
        \E i \in 1..Len(Elems(r)), k, l \in 1..Len(ref[r].elems) :
            LET item  == Elems(r)[i]
                first == ref[r].elems[k]
                last  == ref[r].elems[l]
            IN  /\ k < l /\ RowAccepted(first) /\ RowAccepted(last)
                /\ Keyed(item) /\ SameKey(item, first) /\ SameKey(item, last)
                /\ last = LastWithKey(r, k)
                /\ FactorOf(item).t = "float"
                /\ ~AtLeast(FactorOf(item), PyFloat(RowComp(first)).val)
                /\ AtLeast(FactorOf(item), PyFloat(RowComp(last)).val)
                /\ Flag(item) = BoolV(TRUE)

\* the conditions under which the lookup builder is to skip a row
RowSkipped(row) ==
    IF ~IsDict(row) THEN TRUE
    ELSE \/ Blank(RowCode(row)) \/ Blank(RowSub(row))
         \/ RowComp(row) = None \/ PyFloat(RowComp(row)).exc # "none"

\* the evaluator has gone through the reference dataset, to its end or to
\* an exception
LookupPhaseOver(r) == pc[r] \in {"evaluated", "evaluate_raised", "lookup_raised"}

\* C17: a reference row is skipped if its code or subsidiary is missing or
\* blank or if its required compensation is missing or does not parse as a
\* number; a skipped row adds nothing to the table and processing continues
\* with the next row; every other row inserts its key.
C17_RowSkippedOrInserted ==
    \A r \in Runs : LookupPhaseOver(r) =>
        /\ pc[r] # "lookup_raised"
        /\ \A k \in 1..Len(ref[r].elems) :
               LET row == ref[r].elems[k]
               IN  ~RowSkipped(row) =>
                       /\ IsStr(RowCode(row)) /\ IsStr(RowSub(row))
                       /\ HasKey(lookup[r], LookupKey(RowCode(row), RowSub(row)))
        /\ \A q \in 1..Len(lookup[r].kv) :
               \E k \in 1..Len(ref[r].elems) :
                   LET row == ref[r].elems[k]
                   IN  /\ ~RowSkipped(row)
                       /\ IsStr(RowCode(row)) /\ IsStr(RowSub(row))
                       /\ lookup[r].kv[q].k = LookupKey(RowCode(row), RowSub(row))
                       /\ lookup[r].kv[q].v = PyFloat(RowComp(LastWithKey(r, k))).val

\* what the reference dataset of run r alone gives the item: desired if and
\* only if an accepted row of that dataset has the item's key and the offer
\* is at least the value of the last such row
DesiredByOwnDataset(r, item) ==
    \E k \in 1..Len(ref[r].elems) :
        /\ RowAccepted(ref[r].elems[k]) /\ SameKey(item, ref[r].elems[k])
        /\ AtLeast(FactorOf(item), PyFloat(RowComp(LastWithKey(r, k))).val)

\* C18: the lookup table is rebuilt from scratch by every call and never
\* cached.  With the calls of two emails interleaved in any order, the table
\* a call uses holds only entries derived from the call's own reference
\* dataset, and the is_desired it sets is what that dataset alone gives: an
\* entry built by the other call has no effect.
C18_TableBuiltFromOwnDataset ==
    \A r \in Runs : TableBuilt(r) =>
        /\ \A q \in 1..Len(lookup[r].kv) :
               \E k \in 1..Len(ref[r].elems) :
                   LET row == ref[r].elems[k]
                   IN  /\ RowAccepted(row)
                       /\ lookup[r].kv[q].k = LookupKey(RowCode(row), RowSub(row))
                       /\ lookup[r].kv[q].v = PyFloat(RowComp(LastWithKey(r, k))).val
        /\ Returned(r) =>
               \A i \in 1..Len(Elems(r)) :
                   LET item == Elems(r)[i]
                   IN  (Keyed(item) /\ FactorOf(item).t = "float")
                       => Flag(item) = BoolV(DesiredByOwnDataset(r, item))

\* both calls have returned, their reference datasets differ, and the same
\* item is desired in one run and not in the other
C18_RunsDisagree ==
    /\ \A r \in Runs : Returned(r)
    /\ ref[1] # ref[2]
    /\ \E i \in 1..Len(Elems(1)) :
           /\ Keyed(Elems(1)[i]) /\ Keyed(Elems(2)[i])
           /\ FactorOf(Elems(1)[i]) = FactorOf(Elems(2)[i])
           /\ Flag(Elems(1)[i]) # Flag(Elems(2)[i])

\* the pipeline runs of the end-to-end scenario: the raw candidate, alone in
\* its batch and with or without the other six fields, "PX-789" in the
\* valid-code set and the one reference row (px-789, NL, 7.5)
ScenarioCandidate ==
    SparseCandidate(Str(<<"P", "X", "-", "7", "8", "9">>), Str(<<"n", "l">>), Str(<<"€", "7", ",", "5", "0">>))
ScenarioDataset ==
    ListOf(<< RefRow(Str(<<"p", "x", "-", "7", "8", "9">>), Str(<<"N", "L">>), Str(<<"7", ".", "5">>)) >>)
Scenario(r, candidate) ==
    /\ ~direct[r] /\ raw[r] = ListOf(<<candidate>>)
    /\ <<"P", "X", "-", "7", "8", "9">> \in codes[r]
    /\ ref[r] = ScenarioDataset
Passed(r, stage) ==
    CASE stage = "normalized" -> pc[r] \in {"normalized", "validated", "evaluated"}
      [] stage = "validated"  -> pc[r] \in {"validated", "evaluated"}
      [] OTHER                -> pc[r] = "evaluated"

\* C19 as stated: the candidate of the scenario is normalized to the factor
\* 7.5, the validator returns no issue entry for it, and is_desired = true.
C19_ScenarioPassesValidation ==
    \A r \in Runs : Scenario(r, ScenarioCandidate) =>
        /\ pc[r] \in {"extracted", "normalized", "validated", "evaluated"}
        /\ Passed(r, "normalized") =>
               Len(Elems(r)) = 1 /\ FactorOf(Elems(r)[1]) = FloatV(750)
        /\ Passed(r, "validated") => issues[r] = <<>>
        /\ Passed(r, "evaluated") => Flag(Elems(r)[1]) = BoolV(TRUE)

\* C19 amended: the candidate of the scenario is normalized to code "PX-789",
\* subsidiary "NL" and factor 7.5 and gets is_desired = true; the validator
\* finds nothing wrong with its code, subsidiary and factor, but returns one
\* entry for it that names start_date and end_date, which the candidate does
\* not have; the candidate with valid dates added gets no entry.
C19_ScenarioDesiredDatesMissing ==
    \A r \in Runs :
        /\ Scenario(r, ScenarioCandidate) =>
               /\ pc[r] \in {"extracted", "normalized", "validated", "evaluated"}
               /\ Passed(r, "normalized") =>
                      /\ Len(Elems(r)) = 1
                      /\ CodeOf(Elems(r)[1]) = Str(<<"P", "X", "-", "7", "8", "9">>)
                      /\ SubOf(Elems(r)[1]) = Str(<<"N", "L">>)
                      /\ FactorOf(Elems(r)[1]) = FloatV(750)
               /\ Passed(r, "validated") =>
                      /\ Len(issues[r]) = 1 /\ issues[r][1].item_index = 0
                      /\ IssueFields(r, 1) = {start_date, end_date}
               /\ Passed(r, "evaluated") => Flag(Elems(r)[1]) = BoolV(TRUE)
        /\ Scenario(r, BaseCandidate) =>
               /\ pc[r] \in {"extracted", "normalized", "validated", "evaluated"}
               /\ Passed(r, "normalized") =>
                      Len(Elems(r)) = 1 /\ FactorOf(Elems(r)[1]) = FloatV(750)
               /\ Passed(r, "validated") => issues[r] = <<>>
               /\ Passed(r, "evaluated") => Flag(Elems(r)[1]) = BoolV(TRUE)

\* the scenario has run to its end: the item is reported for its dates and
\* is desired
C19_ScenarioEvaluated ==
    \E r \in Runs : Scenario(r, ScenarioCandidate) /\ pc[r] = "evaluated"
        /\ issues[r] # <<>> /\ Flag(Elems(r)[1]) = BoolV(TRUE)

\* the batch of pipeline run r is empty or is not a list
NoInput(r) == ~direct[r] /\ pc[r] # "idle" /\ (raw[r].kind # "list" \/ raw[r].elems = <<>>)

\* C20: an empty or malformed (non-list) batch short-circuits the pipeline to
\* an empty result without an exception: the normalizer returns [], the
\* validator returns [] and the evaluator, called with the normalizer's
\* output, returns [].
C20_NoInputEmptyResult ==
    \A r \in Runs : NoInput(r) =>
        /\ pc[r] \in {"extracted", "normalized", "validated", "evaluated"}
        /\ exc[r] = "none"
        /\ pc[r] # "extracted" => items[r] = ListOf(<<>>)
        /\ pc[r] \in {"validated", "evaluated"} => issues[r] = <<>>
        /\ pc[r] = "evaluated" => evaluated[r] = <<>>

\* a batch that is not a list has gone through the three stages
C20_MalformedBatchEvaluated ==
    \E r \in Runs : NoInput(r) /\ raw[r].kind # "list" /\ ref[r].elems # <<>>
        /\ pc[r] = "evaluated"

\* ---------------------------------------------------------------------
\* C21 .. C30
\* ---------------------------------------------------------------------

\* the value a candidate carries for a field, keys compared without case
RawField(c, f) == Get(LowerKeys(c.kv, Dict(<<>>)), Str(f))

\* the codes and country names the normalizer recognizes
CountryNames ==
    {<<"N", "L">>, <<"N", "E", "T", "H", "E", "R", "L", "A", "N", "D", "S">>, <<"N", "E", "D", "E", "R", "L", "A", "N", "D">>, <<"B", "E">>, <<"B", "E", "L", "G", "I", "U", "M">>, <<"B", "E", "L", "G", "I", "E">>,
     <<"D", "E">>, <<"G", "E", "R", "M", "A", "N", "Y">>, <<"D", "U", "I", "T", "S", "L", "A", "N", "D">>}

Recognized(s) == upper(strip(s)) \in CountryNames

\* C21: every raw subsidiary string that is none of the recognized codes or
\* country names, in any letter case, is normalized to a null subsidiary.
C21_UnrecognizedIsNull ==
    \A r \in Runs : Normalized(r) =>
        \A i \in 1..Len(Accepted(r)) :
            (/\ Len(Elems(r)) = Len(Accepted(r))
             /\ IsStr(RawField(Accepted(r)[i], subsidiary))
             /\ ~Recognized(RawField(Accepted(r)[i], subsidiary).s))
                => SubOf(Elems(r)[i]) = None

\* a string that contains one of the markers of a subsidiary
Marks(u, markers) == \E w \in markers : Contains(w, u)

NLMarkers == {<<"N", "L">>, <<"N", "E", "T", "H", "E", "R", "L", "A", "N", "D", "S">>, <<"N", "E", "D", "E", "R", "L", "A", "N", "D">>}
BEMarkers == {<<"B", "E">>, <<"B", "E", "L", "G", "I", "U", "M">>, <<"B", "E", "L", "G", "I", "E">>}
DEMarkers == {<<"D", "E">>, <<"G", "E", "R", "M", "A", "N", "Y">>, <<"D", "U", "I", "T", "S", "L", "A", "N", "D">>}

\* the subsidiary the priority scan NL, BE, DE gives a raw string
Scanned(s) ==
    LET u == upper(strip(s))
    IN  IF Marks(u, NLMarkers) THEN Str(<<"N", "L">>)
        ELSE IF Marks(u, BEMarkers) THEN Str(<<"B", "E">>)
        ELSE IF Marks(u, DEMarkers) THEN Str(<<"D", "E">>)
        ELSE None

\* C22: a raw subsidiary string is trimmed, upper-cased and scanned for the
\* markers of NL, then BE, then DE, the first subsidiary with a marker in the
\* string being the result and null when there is none; a value that is not
\* a string gives null, so the result is always NL, BE, DE or null.
C22_SubsidiaryPriorityScan ==
    \A r \in Runs : (Normalized(r) /\ Len(Elems(r)) = Len(Accepted(r))) =>
        \A i \in 1..Len(Accepted(r)) :
            LET v == RawField(Accepted(r)[i], subsidiary)
            IN  /\ SubOf(Elems(r)[i]) \in {None, Str(<<"N", "L">>), Str(<<"B", "E">>), Str(<<"D", "E">>)}
                /\ IsStr(v) => SubOf(Elems(r)[i]) = Scanned(v.s)
                /\ ~IsStr(v) => SubOf(Elems(r)[i]) = None

\* a string with the markers of two subsidiaries ("be-de" holds both "BE"
\* and "DE") got the one that comes first
C22_SeveralMarkersFirstWins ==
    \E r \in Runs : Normalized(r) /\ Len(Elems(r)) = Len(Accepted(r)) /\
        \E i \in 1..Len(Accepted(r)) :
            /\ RawField(Accepted(r)[i], subsidiary) = Str(<<"b", "e", "-", "d", "e">>)
            /\ SubOf(Elems(r)[i]) = Str(<<"B", "E">>)

MaxSpqOf(item) == Get(item, Str(max_spq))

\* an integer value (a Python bool is an int) that is not negative
NonNegativeInt(v) == IsInt(v) /\ (v.t \in {"int", "bool"} => v.n >= 0)

\* the integer written by the first run of digits of a string
RECURSIVE FirstDigitRun(_)
FirstDigitRun(s) ==
    IF s = <<>> THEN <<>>
    ELSE IF ~IsDigit(Head(s)) THEN FirstDigitRun(Tail(s))
    ELSE SubSeq(s, 1, CHOOSE k \in 1..Len(s) :
                         /\ \A j \in 1..k : IsDigit(s[j])
                         /\ (k = Len(s) \/ ~IsDigit(s[k + 1])))

\* C23: after normalization max_spq is a non-negative integer or null for
\* every raw value: an integer raw value is kept as it is, a string gives the
\* integer of its first run of digits (null when it has no digit), and any
\* other raw value gives null.
C23_MaxSpqNonNegativeOrNull ==
    \A r \in Runs : (Normalized(r) /\ Len(Elems(r)) = Len(Accepted(r))) =>
        \A i \in 1..Len(Accepted(r)) :
            LET v == RawField(Accepted(r)[i], max_spq)
                out == MaxSpqOf(Elems(r)[i])
            IN  /\ out = None \/ NonNegativeInt(out)
                /\ (IsInt(v) /\ ~IsStr(v)) => out = v
                /\ (IsStr(v) /\ ~IsNullString(v)) =>
                      out = IF FirstDigitRun(v.s) = <<>> THEN None
                            ELSE IntV(DigitsVal(FirstDigitRun(v.s)))
                /\ (~IsInt(v) /\ ~IsStr(v)) => out = None

\* the word "null", in any letter case, with blanks around it or not
NullWord(v) == IsStr(v) /\ lower(strip(v.s)) = <<"n", "u", "l", "l">>

\* C24: in every recognized field a raw string that is "null" after trimming
\* and ignoring letter case is normalized to null, whatever the rule of the
\* field would make of the string.
C24_NullWordIsNull ==
    \A r \in Runs : (Normalized(r) /\ Len(Elems(r)) = Len(Accepted(r))) =>
        \A i \in 1..Len(Accepted(r)) : \A n \in 1..Len(expected_fields) :
            NullWord(RawField(Accepted(r)[i], expected_fields[n]))
                => Get(Elems(r)[i], Str(expected_fields[n])) = None

\* a text field whose own rule would keep the trimmed string held the word
\* in another case with a blank, and is null
C24_NullWordInTextField ==
    \E r \in Runs : Normalized(r) /\ Len(Elems(r)) = Len(Accepted(r)) /\
        \E i \in 1..Len(Accepted(r)) :
            /\ RawField(Accepted(r)[i], product_name) = Str(<<" ", "N", "u", "l", "l", " ">>)
            /\ Get(Elems(r)[i], Str(product_name)) = None

\* the number found in a string factor once commas are dots: the parse of
\* the first numeric substring, or "none" when there is no such substring
ParsedFactor(s) ==
    LET found == NumberMatch(replace(s, ",", "."))
    IN  IF found = <<>> THEN [found |-> FALSE, exc |-> "none", val |-> None]
        ELSE [found |-> TRUE, exc |-> ParseFloat(found).exc,
              val |-> ParseFloat(found).val]

HasPercent(s) == \E i \in 1..Len(s) : s[i] = "%"

\* C25: a string factor is null when no number is found in it or the number
\* does not parse, null when the string has a percent sign and the parsed
\* value exceeds 1, null when the parsed value is <= 0, and the parsed value
\* otherwise; so a percent string whose value is above 0 and at most 1 is
\* kept as the factor.
C25_StringFactorRules ==
    \A r \in Runs : (Normalized(r) /\ Len(Elems(r)) = Len(Accepted(r))) =>
        \A i \in 1..Len(Accepted(r)) :
            LET v == RawField(Accepted(r)[i], rebate_compensation_factor)
                out == FactorOf(Elems(r)[i])
            IN  (IsStr(v) /\ ~NullWord(v)) =>
                  LET p == ParsedFactor(v.s)
                  IN  /\ (~p.found \/ p.exc # "none") => out = None
                      /\ (p.found /\ p.exc = "none") =>
                            /\ (HasPercent(v.s) /\ p.val.n > 100) => out = None
                            /\ p.val.n <= 0 => out = None
                            /\ (p.val.n > 0 /\ ~(HasPercent(v.s) /\ p.val.n > 100))
                                  => out = p.val

\* the string "1%" was normalized to the factor 1.0
C25_PercentAtMostOneKept ==
    \E r \in Runs : Normalized(r) /\ Len(Elems(r)) = Len(Accepted(r)) /\
        \E i \in 1..Len(Accepted(r)) :
            /\ RawField(Accepted(r)[i], rebate_compensation_factor) = Str(<<"1", "%">>)
            /\ FactorOf(Elems(r)[i]) = FloatV(100)

\* an item without its is_desired entry
WithoutFlag(item) ==
    IF IsDict(item)
    THEN [item EXCEPT !.kv = SelectSeq(item.kv, LAMBDA e : e.k # Str(is_desired))]
    ELSE item

\* the step of run r is a call of the evaluator
EvaluatorCalled(r) == pc[r] = "validated" /\ pc'[r] # "validated"

\* C26: a call of the evaluator changes nothing but the is_desired entry of
\* the items: the items are as many, in the same order, with every other key
\* and value as before, and the reference rows are as before; the list it
\* returns is made of the items of the input themselves, in order, and a
\* second evaluation of them with the same reference rows gives every item
\* the same is_desired.
C26_EvaluatorFrame ==
    [][\A r \in Runs : EvaluatorCalled(r) =>
          /\ ref' = ref
          /\ items'[r].kind = items[r].kind
          /\ Len(items'[r].elems) = Len(items[r].elems)
          /\ \A i \in 1..Len(items[r].elems) :
                WithoutFlag(items'[r].elems[i]) = WithoutFlag(items[r].elems[i])
          /\ pc'[r] = "evaluated" =>
                /\ evaluated'[r] = [i \in 1..Len(items[r].elems) |-> i]
                /\ evaluate_rebate_desirability(items'[r], ref'[r]).items
                      = items'[r].elems]_vars

\* a call has returned two items, one flagged desired and one not, the
\* first with a code that is not in its normalized form
C26_MixedFlagsReturned ==
    \E r \in Runs :
        /\ Returned(r) /\ Len(Elems(r)) = 2 /\ evaluated[r] = <<1, 2>>
        /\ \E i, j \in 1..2 : Flag(Elems(r)[i]) = BoolV(TRUE)
                              /\ Flag(Elems(r)[j]) = BoolV(FALSE)
        /\ \E i \in 1..2 : LET c == CodeOf(Elems(r)[i])
                           IN  IsStr(c) /\ upper(strip(c.s)) # c.s

\* the candidates of a raw batch the normalizer takes, and the position in
\* the raw batch of the p-th of them
Taken(c) == IsDict(c) /\ AllKeysStr(c)
RawPos(r, p) ==
    CHOOSE j \in 1..Len(raw[r].elems) :
        /\ Taken(raw[r].elems[j])
        /\ Cardinality({l \in 1..(j - 1) : Taken(raw[r].elems[l])}) = p - 1
SkippedBefore(r, j) == \E l \in 1..(j - 1) : ~Taken(raw[r].elems[l])

\* C27: a validation entry with item_index i is about the item at position i
\* of the normalizer's output, which is also position i of the evaluator's
\* output; that item comes from the candidate at the same position of the
\* raw batch only when no earlier candidate was skipped, every skipped
\* candidate moving the later items one position down.
C27_IndexAlignment ==
    \A r \in Runs : (~direct[r] /\ pc[r] \in {"validated", "evaluated"}) =>
        /\ Len(Elems(r)) = Len(Accepted(r))
        /\ \A k \in 1..Len(issues[r]) :
              LET p == issues[r][k].item_index + 1
              IN  /\ p \in 1..Len(Elems(r))
                  /\ issues[r][k].issues
                        = ItemIssues(Elems(r)[p], required_fields, codes[r])
                  /\ Returned(r) => evaluated[r][p] = p
        /\ \A p \in 1..Len(Elems(r)) :
              /\ WithoutFlag(Elems(r)[p]) = TransformItem(raw[r].elems[RawPos(r, p)]).item
              /\ RawPos(r, p) = p <=> ~SkippedBefore(r, RawPos(r, p))
              /\ RawPos(r, p) >= p

\* an entry with item_index 0 is about the second candidate of the raw
\* batch, the first one having been skipped; the item has been evaluated
C27_EntryShiftedBySkip ==
    \E r \in Runs :
        /\ ~direct[r] /\ Returned(r) /\ Len(raw[r].elems) = 2
        /\ ~Taken(raw[r].elems[1]) /\ Taken(raw[r].elems[2])
        /\ Len(issues[r]) = 1 /\ issues[r][1].item_index = 0

\* the stages of the orchestrator in the order of the claim: a run is at
\* "received" before the first and at StageOrder[n + 1] after the n-th
StageOrder ==
    <<"received", "sender_validated", "classified", "extracted", "normalized",
      "validated", "evaluated">>
StageAfter(a, b) ==
    \E n \in 1..(Len(StageOrder) - 1) : StageOrder[n] = a /\ StageOrder[n + 1] = b

\* C28: for an email the orchestrator runs sender validation,
\* classification, extraction, normalization, validation and evaluation once
\* each in this order, whatever the earlier stages returned: every step of a
\* run takes it from one stage to the next one (the evaluation, the last
\* stage, counting as run when the evaluator raises).
C28_StagesOnceEachInOrder ==
    [][\A r \in Runs : pc'[r] # pc[r] =>
          \/ StageAfter(pc[r], pc'[r])
          \/ pc[r] = "validated" /\ pc'[r] \in {"lookup_raised", "evaluate_raised"}]_vars

\* a sequence without a repeated element
NoRepeat(seq) == \A i, j \in 1..Len(seq) : i # j => seq[i] # seq[j]

\* C29: every (account, message) pair the listener puts on the queue is
\* taken by one worker only and in the order of the puts (the pairs taken
\* are the first of the pairs put, the others being on the queue), and
\* task_done has been called exactly once for every pair taken, at most
\* once for any pair: no email is lost or handled twice.
C29_EveryPairHandledOnce ==
    /\ NoRepeat(put_log)
    /\ Len(take_log) <= Len(put_log)
    /\ take_log = SubSeq(put_log, 1, Len(take_log))
    /\ queue = SubSeq(put_log, Len(take_log) + 1, Len(put_log))
    /\ \A i \in 1..Len(take_log) : done_calls[take_log[i].msg.id] = 1
    /\ \A i \in 1..Len(queue) : done_calls[queue[i].msg.id] = 0

FailedWorkers == {w \in Workers : worker[w].pc = "failed"}

\* C30: a worker does not wait for the heavy task it starts: when task_done
\* is called for a pair, the heavy task of the pair has just been created
\* and is running, and the worker is back at queue.get(); the queue counts
\* as unfinished only the pairs on it and those a failed worker took, never
\* a running heavy task, so it can report all work done while heavy tasks
\* run, and these are not limited by the number of workers.
C30_WorkerDoesNotAwaitHeavyTask ==
    [][/\ unfinished' = Len(queue') + Cardinality(FailedWorkers')
       /\ \A id \in 1..MaxMessages : done_calls'[id] # done_calls[id] =>
             /\ \E task \in heavy' \ heavy : task.msg.id = id
             /\ \A w \in Workers : worker'[w].pc = worker[w].pc]_vars

\* the queue reports nothing unfinished and is empty while more heavy tasks
\* run than there are workers
C30_MoreHeavyTasksThanWorkers ==
    /\ unfinished = 0 /\ queue = <<>>
    /\ Cardinality(heavy) > NumWorkers
    /\ \A w \in Workers : worker[w].pc = "get"

=============================================================================
